---- MODULE Spec2Model ----
(***************************************************************************)
(* Veritensor / Aegis scanner.                                             *)
(*                                                                         *)
(* Spec      : the `scan` command of scanner/src/aegis/cli/main.py, one    *)
(*             step per loop iteration, then report, decision, signing.    *)
(* KerasSpec : the Keras engine (keras_engine.py) applied to model files   *)
(*             whose configuration tree is grown layer by layer.           *)
(* NotebookSpec : the notebook engine (notebook_engine.py) applied to      *)
(*             notebooks grown cell by cell, then edited and scanned again.*)
(* DatasetSpec : the dataset engine (dataset_engine.py) applied to files   *)
(*             grown row by row.                                           *)
(* DocumentSpec : the document engine (injection.py) applied to files      *)
(*             grown character by character.                               *)
(* CacheSpec : the hash cache under set, get and file modification.        *)
(* TypoSpec  : the edit-distance predicate of the dependency engine.       *)
(* ConfigSpec : the configuration loader (config.py) under calls of load   *)
(*             and changes of the environment and of the config file.      *)
(*                                                                         *)
(* Strings are sequences of tokens, so that the substring test             *)
(* `"CRITICAL" in str(threats)` is a test for a token.                     *)
(***************************************************************************)
EXTENDS Integers, Sequences, FiniteSets, TLC

VARIABLES
    pc,                 \* position of the scan command
    path_kind,          \* "file", "dir" or "missing": what PATH is on disk
    files_to_scan,      \* the enumerated files, in enumeration order
    repo,               \* --repo, <<>> when not given
    image,              \* --image given
    force,              \* --force
    config,             \* the record ConfigLoader.load() returned
    idx,                \* 1-based position of the loop in files_to_scan
    results,            \* List[ScanResult]
    has_critical_errors,
    reported,           \* what step 4 printed (<<>> before it)
    sign_status,
    signing_calls,      \* the calls made to _perform_signing
    exit_code,          \* -1 while running, then typer's exit code
    log,                \* per file: what the environment answered (history)
    kpc,                \* position of the Keras engine run
    kconfig,            \* the configuration tree being grown
    kanalysis,          \* what _analyze_model_config(kconfig) did
    kfile,              \* the Keras file handed to scan_keras_file
    kformat,            \* the branch of scan_keras_file that handled it
    kthreats,           \* what scan_keras_file returned
    npc,                \* position of the notebook engine run
    nb,                 \* the .ipynb file handed to scan_notebook
    nthreats,           \* what scan_notebook returned
    nprev,              \* what it returned before a cell was inserted
    ninserted,          \* where the cell was inserted (0: nowhere)
    dpc,                \* position of the dataset engine run
    dfile,              \* the dataset file handed to scan_dataset
    dfull,              \* full_scan
    dthreats,           \* what scan_dataset returned
    dexamined,          \* the values its loop took from the stream (history)
    dend,               \* how its loop ended
    tpc,                \* position of the document engine run
    tfile,              \* the document handed to scan_document
    tchunks,            \* the chunks its text generator yields, each
                        \* character with its place in the file (history)
    tread,              \* how many of them the loop of scan_document took
    tfed,               \* which of them were passed to the PII matcher
    tthreats,           \* what scan_document returned
    cpc,                \* position of the hash cache run
    cfiles,             \* per path: the size and mtime stat() reports now
    ctable,             \* the table file_cache, per path one row or none
    cgot,               \* the last get: its path and what it returned
    clastset,           \* per path: what the last set stored (history)
    ypc,                \* position of the typosquatting check
    yname,              \* the package name of the manifest
    ypopular,           \* the popular package it is compared with
    yresult,            \* <<_is_typo(name, popular), _is_typo(popular, name)>>
    lpc,                \* position of the process that loads the configuration
    lenv,               \* os.environ
    lfile,              \* the config file at config_path
    lyaml,              \* PyYAML could be imported
    linstance,          \* ConfigLoader._instance
    lbuilt,             \* what load() read when it built it (history)
    llog,               \* what load() logged while building it
    lscan               \* the configuration the scan command runs with

pvars == <<pc, path_kind, files_to_scan, repo, image, force, config, idx,
           results, has_critical_errors, reported, sign_status,
           signing_calls, exit_code, log>>
kvars == <<kpc, kconfig, kanalysis, kfile, kformat, kthreats>>
nvars == <<npc, nb, nthreats, nprev, ninserted>>
dvars == <<dpc, dfile, dfull, dthreats, dexamined, dend>>
tvars == <<tpc, tfile, tchunks, tread, tfed, tthreats>>
cvars == <<cpc, cfiles, ctable, cgot, clastset>>
yvars == <<ypc, yname, ypopular, yresult>>
lvars == <<lpc, lenv, lfile, lyaml, linstance, lbuilt, llog, lscan>>
vars == <<pvars, kvars, nvars, dvars, tvars, cvars, yvars, lvars>>

\* what each component leaves alone
notp == <<kvars, nvars, dvars, tvars, cvars, yvars, lvars>>
notk == <<pvars, nvars, dvars, tvars, cvars, yvars, lvars>>
notn == <<pvars, kvars, dvars, tvars, cvars, yvars, lvars>>
notd == <<pvars, kvars, nvars, tvars, cvars, yvars, lvars>>
nott == <<pvars, kvars, nvars, dvars, cvars, yvars, lvars>>
notc == <<pvars, kvars, nvars, dvars, tvars, yvars, lvars>>
noty == <<pvars, kvars, nvars, dvars, tvars, cvars, lvars>>
notl == <<pvars, kvars, nvars, dvars, tvars, cvars, yvars>>

(***************************************************************************)
(* Bounds                                                                  *)
(***************************************************************************)
MaxFiles == 2
MaxNodes == 3

(***************************************************************************)
(* Strings                                                                 *)
(***************************************************************************)
Contains(s, tok) == \E k \in DOMAIN s : s[k] = tok

NoRepo == <<>>
Repos == { NoRepo, <<"org/model">>, <<"org/", "CRITICAL", "-fixes">> }

\* str(e) of the exception calculate_sha256 raises (it names the path), of
\* the one the registry call raises, and of the one the pickle read raises
HashErrorMessage == <<"Permission denied: '/models/", "CRITICAL", "/a.bin'">>
TransportErrorMessage == <<"Connection timed out">>
PickleErrorMessage == <<"invalid load key, 'm'.">>

\* Path.suffix of the file names used, and str.lower() on them
Lower(s) ==
    CASE s = ".PKL" -> ".pkl"
      [] s = ".PT" -> ".pt"
      [] s = ".H5" -> ".h5"
      [] OTHER -> s

FileNames ==
    { [stem |-> "model", suffix |-> ".PKL"],
      [stem |-> "net", suffix |-> ".h5"],
      [stem |-> "weights", suffix |-> ".safetensors"],
      [stem |-> "train", suffix |-> ".ipynb"],
      [stem |-> "requirements", suffix |-> ".txt"] }

PICKLE_EXTS == { ".pt", ".pth", ".bin", ".pkl", ".ckpt" }
KERAS_EXTS == { ".h5", ".keras" }
SAFETENSORS_EXTS == { ".safetensors" }
GGUF_EXTS == { ".gguf" }

(***************************************************************************)
(* Threat strings                                                          *)
(***************************************************************************)
LambdaThreat == <<"CRITICAL", ": Keras Lambda layer detected (RCE Risk)">>
H5pyMissingThreat == <<"WARNING", ": h5py missing, cannot scan legacy .h5 file">>

(***************************************************************************)
(* JSON values as far as the Keras walk reads them: a dict with the keys   *)
(* "class_name", "config" and "layers" (Absent when the key is missing), a *)
(* list, or anything else (Scalar).                                        *)
(***************************************************************************)
Absent == [kind |-> "absent"]
Scalar == [kind |-> "scalar"]
List(items) == [kind |-> "list", items |-> items]
Dict(cn, cfg, layers) ==
    [kind |-> "dict", class_name |-> cn, config |-> cfg, layers |-> layers]
EmptyDict == Dict("None", Absent, Absent)
EmptyList == List(<<>>)

IsDict(j) == j.kind = "dict"
IsList(j) == j.kind = "list"

\* the result of a call: a returned list, or an exception
Returned(threats) == [raised |-> FALSE, threats |-> threats]
Raised == [raised |-> TRUE, threats |-> <<>>]

NestingClasses == { "Model", "Functional", "Sequential" }

RECURSIVE _analyze_model_config(_)
RECURSIVE WalkLayers(_, _, _)

\* the for loop of _analyze_model_config over layers[k..], threats so far acc
WalkLayers(layers, k, acc) ==
    IF k > Len(layers) THEN Returned(acc)
    ELSE LET layer == layers[k] IN
         IF ~IsDict(layer) THEN Raised         \* layer.get: AttributeError
         ELSE LET class_name == layer.class_name
                  acc1 == IF class_name = "Lambda"
                          THEN Append(acc, LambdaThreat) ELSE acc
              IN IF class_name \in NestingClasses
                 THEN LET nested_config == IF layer.config = Absent
                                           THEN EmptyDict ELSE layer.config
                          sub == _analyze_model_config(nested_config)
                      IN IF sub.raised THEN Raised
                         ELSE WalkLayers(layers, k + 1, acc1 \o sub.threats)
                 ELSE WalkLayers(layers, k + 1, acc1)

_analyze_model_config(cfg) ==
    IF ~IsDict(cfg) THEN Raised                \* config.get: AttributeError
    ELSE LET model_config == IF cfg.config = Absent THEN cfg ELSE cfg.config IN
         IF ~IsDict(model_config) THEN Raised
         ELSE LET layers == IF model_config.layers = Absent
                            THEN EmptyList ELSE model_config.layers
              IN IF ~IsList(layers) THEN Returned(<<>>)
                 ELSE WalkLayers(layers.items, 1, <<>>)

(***************************************************************************)
(* A Keras file: whether zipfile.is_zipfile accepts it, whether its first  *)
(* eight bytes are the HDF5 signature, the state of the zip member         *)
(* config.json and of the HDF5 root attribute model_config, and whether    *)
(* h5py could be imported.                                                 *)
(***************************************************************************)
MemberStates == { "absent", "badjson", "ok" }
AttrStates == { "unreadable", "absent", "badjson", "ok" }

KerasFile(zip, sig, h5py, zmember, zconfig, hattr, hconfig) ==
    [is_zip |-> zip, hdf5_sig |-> sig, h5py |-> h5py,
     zmember |-> zmember, zconfig |-> zconfig,
     hattr |-> hattr, hconfig |-> hconfig]

_is_hdf5(f) == f.hdf5_sig

_scan_keras_zip(f) ==
    IF f.zmember = "absent" THEN <<>>
    ELSE IF f.zmember = "badjson" THEN <<>>    \* json.load raises, logged
    ELSE LET r == _analyze_model_config(f.zconfig) IN
         IF r.raised THEN <<>> ELSE r.threats  \* except Exception: logged

_scan_keras_h5(f) ==
    IF f.hattr = "unreadable" THEN <<>>        \* h5py.File raises, logged
    ELSE IF f.hattr = "absent" THEN <<>>
    ELSE IF f.hattr = "badjson" THEN <<>>
    ELSE LET r == _analyze_model_config(f.hconfig) IN
         IF r.raised THEN <<>> ELSE r.threats

\* the probes in the other order: the HDF5 signature first
KerasFormat_Hdf5First(f) ==
    IF _is_hdf5(f) THEN "hdf5"
    ELSE IF f.is_zip THEN "zip"
    ELSE "none"

\* which branch of scan_keras_file handles the file
KerasFormat(f) ==
    IF f.is_zip THEN "zip"
    ELSE IF _is_hdf5(f) THEN "hdf5"
    ELSE "none"

scan_keras_file(f) ==
    CASE KerasFormat(f) = "zip" -> _scan_keras_zip(f)
      [] KerasFormat(f) = "hdf5" ->
            IF f.h5py THEN _scan_keras_h5(f) ELSE <<H5pyMissingThreat>>
      [] OTHER -> <<>>

(***************************************************************************)
(* The scan pipeline (cli/main.py)                                         *)
(***************************************************************************)
HashMismatchThreat(rp) ==
    <<"CRITICAL", ": Hash mismatch! File differs from official '">> \o rp \o <<"'">>
UnknownFileThreat(rp) ==
    <<"WARNING", ": File not found in remote repo '">> \o rp \o <<"'">>
HashingErrorThreat(msg) == <<"Hashing Error: ">> \o msg
ScanErrorThreat(msg) == <<"Scan Error: ">> \o msg

\* threats the pickle engine reports (its rule set is not part of this model)
OsSystemThreat == <<"CRITICAL", ": Unsafe import 'os.system'">>

NoDigest == <<>>
Digest == <<"sha256:ab12">>

\* ScanResult(file_path=...)
NewScanResult(name) ==
    [file_path |-> name, file_hash |-> NoDigest,
     identity_verified |-> FALSE, threats |-> <<>>]

add_threat(res, t) == [res EXCEPT !.threats = Append(@, t)]

\* what calculate_sha256 does: a digest, or an exception with message msg
HashOutcomes ==
    { [ok |-> TRUE, msg |-> <<>>], [ok |-> FALSE, msg |-> HashErrorMessage] }

\* what hf_client.verify_file_hash does when it is called
NotCalled == [called |-> FALSE, raised |-> FALSE, value |-> "NONE", msg |-> <<>>]
VerifyOutcomes(rp, h) ==
    IF h.ok /\ rp # NoRepo
    THEN { [called |-> TRUE, raised |-> FALSE, value |-> v, msg |-> <<>>] :
               v \in { "VERIFIED", "MISMATCH", "UNKNOWN" } } \cup
         { [called |-> TRUE, raised |-> TRUE, value |-> "NONE",
            msg |-> TransportErrorMessage] }
    ELSE { NotCalled }

\* what open/read and scan_pickle_stream(content, strict_mode=True) do
PickleOutcomes ==
    { [raised |-> FALSE, threats |-> ts, msg |-> <<>>] :
          ts \in { <<>>, <<OsSystemThreat>> } } \cup
    { [raised |-> TRUE, threats |-> <<>>, msg |-> PickleErrorMessage] }

LambdaConfig == Dict("None", Dict("None", Absent,
                        List(<<Dict("Lambda", EmptyDict, Absent)>>)), Absent)
CleanConfig == Dict("None", Dict("None", Absent,
                        List(<<Dict("Dense", EmptyDict, Absent)>>)), Absent)

\* the Keras files the pipeline is run on
KerasSamples ==
    { KerasFile(TRUE, FALSE, TRUE, "ok", LambdaConfig, "absent", EmptyDict),
      KerasFile(TRUE, FALSE, TRUE, "ok", CleanConfig, "absent", EmptyDict),
      KerasFile(TRUE, FALSE, TRUE, "badjson", EmptyDict, "absent", EmptyDict),
      KerasFile(FALSE, TRUE, FALSE, "absent", EmptyDict, "ok", LambdaConfig) }

NoInput == [raised |-> FALSE, threats |-> <<>>, msg |-> <<>>]

EngineFor(ext) ==
    IF ext \in PICKLE_EXTS THEN "pickle"
    ELSE IF ext \in KERAS_EXTS THEN "keras"
    ELSE "none"

EngineInputs(ext) ==
    CASE EngineFor(ext) = "pickle" -> PickleOutcomes
      [] EngineFor(ext) = "keras" -> KerasSamples
      [] OTHER -> { NoInput }

\* --- A. Identity (Hashing & Verification) ---
IdentityStep(res, rp, h, v) ==
    IF ~h.ok THEN add_threat(res, HashingErrorThreat(h.msg))
    ELSE LET r1 == [res EXCEPT !.file_hash = Digest] IN
         IF rp # NoRepo
         THEN CASE v.raised -> add_threat(r1, HashingErrorThreat(v.msg))
                [] v.value = "VERIFIED" -> [r1 EXCEPT !.identity_verified = TRUE]
                [] v.value = "MISMATCH" -> add_threat(r1, HashMismatchThreat(rp))
                [] v.value = "UNKNOWN" -> add_threat(r1, UnknownFileThreat(rp))
                [] OTHER -> r1
         ELSE r1

\* --- B. Static Analysis ---
StaticAnalysis(ext, e) ==
    CASE EngineFor(ext) = "pickle" ->
            IF e.raised THEN <<ScanErrorThreat(e.msg)>> ELSE e.threats
      [] EngineFor(ext) = "keras" -> scan_keras_file(e)
      [] OTHER -> <<>>

RECURSIVE AddThreats(_, _)
AddThreats(res, ts) ==
    IF ts = <<>> THEN res
    ELSE AddThreats(add_threat(res, Head(ts)), Tail(ts))

\* "CRITICAL" in str(scan_res.threats)
CriticalInThreats(res) ==
    \E k \in DOMAIN res.threats : Contains(res.threats[k], "CRITICAL")

\* the policy check without lines 133-135: only engine threats block
PolicyCheck_EngineThreatsOnly(flag, res, threats, rp) ==
    \/ flag
    \/ threats # <<>>

\* --- C. Policy Check ---: the new value of has_critical_errors
PolicyCheck(flag, res, threats, rp) ==
    \/ flag
    \/ threats # <<>>
    \/ (~res.identity_verified /\ rp # NoRepo /\ CriticalInThreats(res))

\* the configuration records ConfigLoader.load() hands to scan
Configs ==
    { [fail_on_severity |-> "CRITICAL", ignored_rules |-> {}],
      [fail_on_severity |-> "HIGH", ignored_rules |-> {LambdaThreat}] }

RECURSIVE SeqsUpTo(_, _)
SeqsUpTo(S, n) ==
    IF n = 0 THEN { <<>> }
    ELSE LET shorter == SeqsUpTo(S, n - 1) IN
         shorter \cup { Append(q, x) : q \in shorter, x \in S }

NoKerasFile ==
    KerasFile(FALSE, FALSE, FALSE, "absent", EmptyDict, "absent", EmptyDict)

KIdle ==
    /\ kpc = "idle"
    /\ kconfig = EmptyDict
    /\ kanalysis = Returned(<<>>)
    /\ kfile = NoKerasFile
    /\ kformat = "none"
    /\ kthreats = <<>>

NIdle ==
    /\ npc = "idle"
    /\ nb = [kind |-> "nocells", cells |-> <<>>]
    /\ nthreats = <<>>
    /\ nprev = <<>>
    /\ ninserted = 0

DIdle ==
    /\ dpc = "idle"
    /\ dfile = [ext |-> ".txt", readable |-> TRUE, pyarrow |-> TRUE, rows |-> <<>>]
    /\ dfull = FALSE
    /\ dthreats = <<>>
    /\ dexamined = <<>>
    /\ dend = "none"

TIdle ==
    /\ tpc = "idle"
    /\ tfile = [ext |-> ".bin", available |-> TRUE, readable |-> TRUE, content |-> <<>>]
    /\ tchunks = <<>>
    /\ tread = 0
    /\ tfed = <<>>
    /\ tthreats = <<>>

CachePaths == { "/models/a.pt", "/models/b.pt" }
NoRow == [size |-> 0, mtime_ns |-> 0, digest |-> "none"]

CIdle ==
    /\ cpc = "idle"
    /\ cfiles = [p \in CachePaths |-> [size |-> 1, mtime_ns |-> 1]]
    /\ ctable = [p \in CachePaths |-> NoRow]
    /\ cgot = [path |-> "none", digest |-> "none"]
    /\ clastset = [p \in CachePaths |-> NoRow]

YIdle ==
    /\ ypc = "idle"
    /\ yname = <<>>
    /\ ypopular = <<>>
    /\ yresult = <<FALSE, FALSE>>

Unset == "<unset>"
NoInstance == [built |-> FALSE]
NoFile == [state |-> "absent", keys |-> {}]

LIdle ==
    /\ lpc = "idle"
    /\ lenv = [v \in { "AEGIS_HF_TOKEN", "HF_TOKEN", "AEGIS_PRIVATE_KEY_PATH",
                       "AEGIS_FAIL_ON" } |-> Unset]
    /\ lfile = NoFile
    /\ lyaml = TRUE
    /\ linstance = NoInstance
    /\ lbuilt = NoInstance
    /\ llog = <<>>
    /\ lscan = NoInstance

\* files_to_scan is what the enumeration of PATH (lines 59-66) yields
Init ==
    /\ pc = "start"
    /\ repo \in Repos
    /\ config \in Configs
    /\ image \in BOOLEAN
    /\ force \in BOOLEAN
    /\ path_kind \in { "file", "dir", "missing" }
    /\ files_to_scan \in SeqsUpTo(FileNames, MaxFiles)
    /\ path_kind = "file" => Len(files_to_scan) = 1
    /\ path_kind = "missing" => files_to_scan = <<>>
    /\ idx = 1
    /\ results = <<>>
    /\ has_critical_errors = FALSE
    /\ reported = <<>>
    /\ sign_status = "unset"
    /\ signing_calls = <<>>
    /\ exit_code = -1
    /\ log = <<>>
    /\ KIdle
    /\ NIdle
    /\ DIdle
    /\ TIdle
    /\ CIdle
    /\ YIdle
    /\ LIdle

\* lines 52-76: load the configuration, enumerate the files
Start ==
    /\ pc = "start"
    /\ IF path_kind = "missing"
       THEN /\ pc' = "exit"
            /\ exit_code' = 1
       ELSE /\ pc' = "scan"
            /\ UNCHANGED exit_code
    /\ UNCHANGED <<path_kind, files_to_scan, repo, image, force, config, idx,
                   results, has_critical_errors, reported, sign_status,
                   signing_calls, log>>
    /\ UNCHANGED notp

\* lines 87-138: one iteration of the loop over files_to_scan
ScanFile ==
    /\ pc = "scan"
    /\ idx <= Len(files_to_scan)
    /\ LET file_path == files_to_scan[idx]
           ext == Lower(file_path.suffix)
       IN \E h \in HashOutcomes :
          \E v \in VerifyOutcomes(repo, h) :
          \E e \in EngineInputs(ext) :
             LET res1 == IdentityStep(NewScanResult(file_path), repo, h, v)
                 threats == StaticAnalysis(ext, e)
                 scan_res == AddThreats(res1, threats)
             IN /\ results' = Append(results, scan_res)
                /\ has_critical_errors' =
                       PolicyCheck(has_critical_errors, scan_res, threats, repo)
                /\ log' = Append(log, [hash |-> h, verification |-> v,
                                       engine |-> EngineFor(ext), input |-> e,
                                       engine_threats |-> threats])
    /\ idx' = idx + 1
    /\ UNCHANGED <<pc, path_kind, files_to_scan, repo, image, force, config,
                   reported, sign_status, signing_calls, exit_code>>
    /\ UNCHANGED notp

\* lines 140-145: 4. Reporting
Report ==
    /\ pc = "scan"
    /\ idx > Len(files_to_scan)
    /\ reported' = results
    /\ pc' = "decide"
    /\ UNCHANGED <<path_kind, files_to_scan, repo, image, force, config, idx,
                   results, has_critical_errors, sign_status, signing_calls,
                   exit_code, log>>
    /\ UNCHANGED notp

\* lines 147-160: 5. Decision
Decide ==
    /\ pc = "decide"
    /\ IF has_critical_errors
       THEN IF force
            THEN /\ sign_status' = "forced_approval"
                 /\ pc' = "sign"
                 /\ UNCHANGED exit_code
            ELSE /\ sign_status' = "clean"
                 /\ pc' = "exit"
                 /\ exit_code' = 1
       ELSE /\ sign_status' = "clean"
            /\ pc' = "sign"
            /\ UNCHANGED exit_code
    /\ UNCHANGED <<path_kind, files_to_scan, repo, image, force, config, idx,
                   results, has_critical_errors, reported, signing_calls, log>>
    /\ UNCHANGED notp

\* lines 162-164: 6. Signing, then the command returns
Sign ==
    /\ pc = "sign"
    /\ signing_calls' =
           IF image
           THEN Append(signing_calls, [status |-> sign_status])
           ELSE signing_calls
    /\ pc' = "exit"
    /\ exit_code' = 0
    /\ UNCHANGED <<path_kind, files_to_scan, repo, image, force, config, idx,
                   results, has_critical_errors, reported, sign_status, log>>
    /\ UNCHANGED notp

Next == Start \/ ScanFile \/ Report \/ Decide \/ Sign

Spec == Init /\ [][Next]_vars

(***************************************************************************)
(* The Keras engine on its own: a configuration tree is grown, handed to   *)
(* _analyze_model_config, then packaged in a file for scan_keras_file.     *)
(***************************************************************************)
RECURSIVE NodeCount(_)
RECURSIVE NodeCountOfItems(_, _)
NodeCountOfItems(items, k) ==
    IF k > Len(items) THEN 0
    ELSE NodeCount(items[k]) + NodeCountOfItems(items, k + 1)

\* the number of layers list elements in a JSON value
NodeCount(j) ==
    CASE j.kind = "dict" -> NodeCount(j.config) + NodeCount(j.layers)
      [] j.kind = "list" -> Len(j.items) + NodeCountOfItems(j.items, 1)
      [] OTHER -> 0

\* layers list elements a tree is grown from: a string, and objects
BaseLayers ==
    { Scalar,
      Dict("Lambda", EmptyDict, Absent),
      Dict("Dense", EmptyDict, Absent),
      Dict("Sequential", Absent, Absent) }

BaseConfigs ==
    { EmptyDict,                               \* {}
      Dict("None", Absent, EmptyList),         \* {"layers": []}
      Dict("None", Absent, Scalar),            \* {"layers": "x"}
      Scalar }                                 \* "x"

PIdle ==
    /\ pc = "idle"
    /\ path_kind = "missing"
    /\ files_to_scan = <<>>
    /\ repo = NoRepo
    /\ image = FALSE
    /\ force = FALSE
    /\ config = [fail_on_severity |-> "CRITICAL", ignored_rules |-> {}]
    /\ idx = 1
    /\ results = <<>>
    /\ has_critical_errors = FALSE
    /\ reported = <<>>
    /\ sign_status = "unset"
    /\ signing_calls = <<>>
    /\ exit_code = -1
    /\ log = <<>>

KInit ==
    /\ PIdle
    /\ NIdle
    /\ DIdle
    /\ TIdle
    /\ CIdle
    /\ YIdle
    /\ LIdle
    /\ kpc = "build"
    /\ kconfig \in BaseConfigs
    /\ kanalysis = Returned(<<>>)
    /\ kfile = NoKerasFile
    /\ kformat = "none"
    /\ kthreats = <<>>

\* one more element at the end of the top-level layers list
KAppend ==
    /\ kpc = "build"
    /\ NodeCount(kconfig) < MaxNodes
    /\ IsDict(kconfig) /\ kconfig.config = Absent /\ IsList(kconfig.layers)
    /\ \E layer \in BaseLayers :
          kconfig' = [kconfig EXCEPT !.layers = List(Append(@.items, layer))]
    /\ UNCHANGED <<kpc, kanalysis, kfile, kformat, kthreats>>
    /\ UNCHANGED notk

\* the tree so far becomes the nested config of a new layer
KNest ==
    /\ kpc = "build"
    /\ NodeCount(kconfig) < MaxNodes
    /\ \E cn \in NestingClasses \cup { "Dense" } :
          kconfig' = Dict("None", Absent, List(<<Dict(cn, kconfig, Absent)>>))
    /\ UNCHANGED <<kpc, kanalysis, kfile, kformat, kthreats>>
    /\ UNCHANGED notk

\* the tree so far goes under a "config" key: {"config": {...}}
KWrap ==
    /\ kpc = "build"
    /\ IsDict(kconfig) /\ kconfig.config = Absent
    /\ kconfig' = Dict("None", kconfig, Absent)
    /\ UNCHANGED <<kpc, kanalysis, kfile, kformat, kthreats>>
    /\ UNCHANGED notk

KAnalyze ==
    /\ kpc = "build"
    /\ kanalysis' = _analyze_model_config(kconfig)
    /\ kpc' = "analyzed"
    /\ UNCHANGED <<kconfig, kfile, kformat, kthreats>>
    /\ UNCHANGED notk

\* the files scan_keras_file is run on: the grown tree is the JSON of the
\* zip member and of the HDF5 attribute, unless the file holds both
KerasFiles(cfg) ==
    { f \in { KerasFile(zip, sig, h5py,
                        zm, IF zm = "ok" THEN cfg ELSE EmptyDict,
                        ha, IF ha # "ok" THEN EmptyDict
                            ELSE IF zip /\ zm = "ok" THEN LambdaConfig ELSE cfg) :
                  zip \in BOOLEAN, sig \in BOOLEAN, h5py \in BOOLEAN,
                  zm \in MemberStates, ha \in AttrStates } :
        /\ f.is_zip \/ f.zmember = "absent"
        /\ f.hdf5_sig \/ f.hattr = "absent" }

KScan ==
    /\ kpc = "analyzed"
    /\ \E f \in KerasFiles(kconfig) :
          /\ kfile' = f
          /\ kformat' = KerasFormat(f)
          /\ kthreats' = scan_keras_file(f)
    /\ kpc' = "scanned"
    /\ UNCHANGED <<kconfig, kanalysis>>
    /\ UNCHANGED notk

KNext == KAppend \/ KNest \/ KWrap \/ KAnalyze \/ KScan

KerasSpec == KInit /\ [][KNext]_vars

(***************************************************************************)
(* Notebook engine (veritensor/engines/static/notebook_engine.py).         *)
(* A text is a sequence of tokens: single characters where the code looks  *)
(* at characters (directives, blanks, line ends), whole words elsewhere.   *)
(***************************************************************************)
MaxCells == 2
PreviewLen == 50

NL == "\n"
Blanks == { " ", "\t" }

Min(a, b) == IF a <= b THEN a ELSE b

\* str.startswith
StartsWith(s, prefix) ==
    /\ Len(prefix) <= Len(s)
    /\ SubSeq(s, 1, Len(prefix)) = prefix

\* s[:n]
Take(s, n) == SubSeq(s, 1, Min(n, Len(s)))

\* str.strip
RECURSIVE LStrip(_)
LStrip(s) ==
    IF s # <<>> /\ Head(s) \in Blanks THEN LStrip(Tail(s)) ELSE s

RECURSIVE RStrip(_)
RStrip(s) ==
    IF s # <<>> /\ s[Len(s)] \in Blanks
    THEN RStrip(SubSeq(s, 1, Len(s) - 1))
    ELSE s

Strip(s) == RStrip(LStrip(s))

\* str.splitlines: a trailing line end opens no further line
RECURSIVE SplitFrom(_, _, _, _)
SplitFrom(text, k, cur, acc) ==
    IF k > Len(text)
    THEN IF cur = <<>> THEN acc ELSE Append(acc, cur)
    ELSE IF text[k] = NL
         THEN SplitFrom(text, k + 1, <<>>, Append(acc, cur))
         ELSE SplitFrom(text, k + 1, Append(cur, text[k]), acc)

SplitLines(text) == SplitFrom(text, 1, <<>>, <<>>)

\* "".join(parts) and "\n".join(lines)
RECURSIVE Concat(_)
Concat(parts) ==
    IF parts = <<>> THEN <<>> ELSE Head(parts) \o Concat(Tail(parts))

RECURSIVE JoinLines(_)
JoinLines(lines) ==
    IF lines = <<>> THEN <<>>
    ELSE IF Len(lines) = 1 THEN Head(lines)
    ELSE Head(lines) \o <<NL>> \o JoinLines(Tail(lines))

\* the list with the line-magic prefix % added to it
DANGEROUS_MAGICS_WithLineMagic ==
    << <<"!">>,
       <<"%", "%", "b", "a", "s", "h">>,
       <<"%", "%", "s", "h">>,
       <<"%", "%", "s", "c", "r", "i", "p", "t">>,
       <<"%", "%", "p", "e", "r", "l">>,
       <<"%", "%", "r", "u", "b", "y">>,
       <<"%", "s", "y", "s", "t", "e", "m">>,
       <<"%">> >>

DANGEROUS_MAGICS ==
    << <<"!">>,
       <<"%", "%", "b", "a", "s", "h">>,
       <<"%", "%", "s", "h">>,
       <<"%", "%", "s", "c", "r", "i", "p", "t">>,
       <<"%", "%", "p", "e", "r", "l">>,
       <<"%", "%", "r", "u", "b", "y">>,
       <<"%", "s", "y", "s", "t", "e", "m">> >>

MagicThreat(i, stripped) ==
    <<"HIGH", ": Jupyter Magic execution detected in cell ", ToString(i), ": '">>
        \o Take(stripped, PreviewLen) \o <<"'">>

\* lines 52-55: one threat for every magic the stripped line starts with
RECURSIVE MagicsOfLine(_, _, _)
MagicsOfLine(stripped, i, m) ==
    IF m > Len(DANGEROUS_MAGICS) THEN <<>>
    ELSE (IF StartsWith(stripped, DANGEROUS_MAGICS[m])
          THEN <<MagicThreat(i, stripped)>> ELSE <<>>)
         \o MagicsOfLine(stripped, i, m + 1)

\* lines 50-55
RECURSIVE MagicsOfLines(_, _)
MagicsOfLines(lines, i) ==
    IF lines = <<>> THEN <<>>
    ELSE MagicsOfLine(Strip(Head(lines)), i, 1) \o MagicsOfLines(Tail(lines), i)

RECURSIVE CommentMagics(_)
CommentMagics(lines) ==
    IF lines = <<>> THEN <<>>
    ELSE LET line == Head(lines)
             stripped == Strip(line)
         IN <<IF StartsWith(stripped, <<"!">>) \/ StartsWith(stripped, <<"%">>)
              THEN <<"#", " ">> \o line
              ELSE line>> \o CommentMagics(Tail(lines))

_clean_magics(source) == JoinLines(CommentMagics(SplitLines(source)))

\* rules.get_severity: the (module, attribute) severity map; "*" as the
\* attribute of an entry matches any attribute of the module
SeverityMap ==
    { [module |-> "os", attr |-> "*", severity |-> "CRITICAL"],
      [module |-> "builtins", attr |-> "eval", severity |-> "HIGH"] }

get_severity(module, attr) ==
    LET hits == { e \in SeverityMap :
                    e.module = module /\ (e.attr = attr \/ e.attr = "*") }
    IN IF hits = {} THEN "None" ELSE (CHOOSE e \in hits : TRUE).severity

\* rules.SignatureLoader.get_suspicious_strings and rules.is_match
suspicious_patterns == <<"AKIA", "ghp_">>

is_match(text, pats) == \E k \in DOMAIN pats : Contains(text, pats[k])

\* ast.parse on the statements the sample cells are written with: a
\* statement is one token of its line, a line starting with # is a comment
Statements ==
    { [tok |-> "os.system('id')", type |-> "call_attr", module |-> "os", name |-> "system"],
      [tok |-> "eval(x)", type |-> "call_name", module |-> "builtins", name |-> "eval"],
      [tok |-> "import os", type |-> "import", module |-> "os", name |-> "*"],
      [tok |-> "import json", type |-> "import", module |-> "json", name |-> "*"] }

SyntaxErrorToken == "def ("
RecursionErrorToken == "((((...."

RECURSIVE NodesOfLine(_, _)
NodesOfLine(line, k) ==
    IF k > Len(line) THEN <<>>
    ELSE LET hits == { st \in Statements : st.tok = line[k] }
         IN (IF hits = {} THEN <<>> ELSE <<CHOOSE st \in hits : TRUE>>)
            \o NodesOfLine(line, k + 1)

RECURSIVE NodesOfLines(_)
NodesOfLines(lines) ==
    IF lines = <<>> THEN <<>>
    ELSE (IF StartsWith(Strip(Head(lines)), <<"#">>) THEN <<>>
          ELSE NodesOfLine(Head(lines), 1))
         \o NodesOfLines(Tail(lines))

IsCode(line) == ~StartsWith(Strip(line), <<"#">>)

ast_parse(text) ==
    LET lines == SplitLines(text)
        has(tok) == \E k \in DOMAIN lines : IsCode(lines[k]) /\ Contains(lines[k], tok)
    IN IF has(SyntaxErrorToken) THEN [error |-> "SyntaxError", nodes |-> <<>>]
       ELSE IF has(RecursionErrorToken) THEN [error |-> "RecursionError", nodes |-> <<>>]
       ELSE [error |-> "none", nodes |-> NodesOfLines(lines)]

UnsafeImportThreat(i, name) ==
    <<"CRITICAL", ": Unsafe import in cell ", ToString(i), ": '", name, "'">>
DangerousCallThreat(sev, i, callee) ==
    <<sev, ": Dangerous call in cell ", ToString(i), ": ">> \o callee \o <<"()">>

\* lines 115-152
RECURSIVE _scan_ast_nodes(_, _)
_scan_ast_nodes(nodes, cell_index) ==
    IF nodes = <<>> THEN <<>>
    ELSE LET node == Head(nodes)
             sev == get_severity(node.module, node.name)
             found ==
                 IF node.type = "import"
                 THEN IF sev = "CRITICAL"
                      THEN <<UnsafeImportThreat(cell_index, node.module)>> ELSE <<>>
                 ELSE IF sev = "None" THEN <<>>
                 ELSE IF node.type = "call_attr"
                      THEN <<DangerousCallThreat(sev, cell_index, <<node.module, ".", node.name>>)>>
                      ELSE <<DangerousCallThreat(sev, cell_index, <<node.name>>)>>
         IN found \o _scan_ast_nodes(Tail(nodes), cell_index)

\* a JSON value read as text: a list of strings is joined, anything else
\* goes through str(); an absent "source" defaults to []
StrVal(text) == [kind |-> "str", parts |-> <<text>>]
ListVal(parts) == [kind |-> "list", parts |-> parts]
NoVal == [kind |-> "absent", parts |-> <<>>]

TextOf(v) == IF v.kind = "str" THEN v.parts[1] ELSE Concat(v.parts)

\* an entry of cell["outputs"]
NumberOutput == [kind |-> "number", content |-> NoVal]
StreamOutput(v) == [kind |-> "stream", content |-> v]       \* {"text": v}
ResultOutput(v) == [kind |-> "result", content |-> v]       \* {"data": {"text/plain": v}}
ImageOutput == [kind |-> "image", content |-> NoVal]        \* {"data": {"image/png": ..}}

\* cell["outputs"]: absent, null or a list
NoOutputs == [kind |-> "absent", items |-> <<>>]
NullOutputs == [kind |-> "null", items |-> <<>>]
Outputs(items) == [kind |-> "list", items |-> items]

\* an element of nb_data["cells"]
NumberCell ==
    [kind |-> "number", cell_type |-> "", source |-> NoVal, outputs |-> NoOutputs]
Cell(type, source, outputs) ==
    [kind |-> "dict", cell_type |-> type, source |-> source, outputs |-> outputs]

SourceSecretThreat(i, pat) ==
    <<"CRITICAL", ": Secret/Suspicious string in cell ", ToString(i), " source: '", pat, "'">>
OutputSecretThreat(i, pat) ==
    <<"CRITICAL", ": Leaked secret in cell ", ToString(i), " OUTPUT: '", pat, "'">>
InvalidJsonThreat == <<"WARNING", ": Invalid JSON in .ipynb file">>
NotebookScanErrorThreat(msg) == <<"WARNING", ": Scan error: ">> \o msg

AttributeErrorMessage == <<"'int' object has no attribute 'get'">>
NotIterableMessage == <<"argument of type 'int' is not iterable">>
NoneNotIterableMessage == <<"'NoneType' object is not iterable">>

\* one threat per pattern that matches, in the order of the pattern list
RECURSIVE SecretThreats(_, _, _, _)
SecretThreats(text, i, where, k) ==
    IF k > Len(suspicious_patterns) THEN <<>>
    ELSE (IF is_match(text, <<suspicious_patterns[k]>>)
          THEN <<IF where = "source"
                 THEN SourceSecretThreat(i, suspicious_patterns[k])
                 ELSE OutputSecretThreat(i, suspicious_patterns[k])>>
          ELSE <<>>)
         \o SecretThreats(text, i, where, k + 1)

\* lines 79-96: the loop over the outputs, which ends at the first entry
\* that raises
RECURSIVE ScanOutputs(_, _, _)
ScanOutputs(items, i, acc) ==
    IF items = <<>> THEN [raised |-> FALSE, threats |-> acc, msg |-> <<>>]
    ELSE LET output == Head(items)
             text_content ==
                 IF output.kind \in { "stream", "result" }
                 THEN TextOf(output.content) ELSE <<>>
         IN IF output.kind = "number"
            THEN [raised |-> TRUE, threats |-> acc, msg |-> NotIterableMessage]
            ELSE ScanOutputs(Tail(items), i,
                     IF text_content # <<>> /\ is_match(text_content, suspicious_patterns)
                     THEN acc \o SecretThreats(text_content, i, "output", 1)
                     ELSE acc)

\* lines 38-96: the body of the loop for cell number i (1-based); the
\* threats are those appended before the body ended or raised
ScanCell(cell, i) ==
    IF cell.kind # "dict"
    THEN [raised |-> TRUE, threats |-> <<>>, msg |-> AttributeErrorMessage]
    ELSE
    LET source_text == TextOf(cell.source)
        clean_source == _clean_magics(source_text)
        tree == ast_parse(clean_source)
        magics ==
            IF cell.cell_type = "code"
            THEN MagicsOfLines(SplitLines(source_text), i) ELSE <<>>
        calls ==
            IF cell.cell_type = "code" /\ Strip(clean_source) # <<>>
               /\ tree.error = "none"
            THEN _scan_ast_nodes(tree.nodes, i) ELSE <<>>
        secrets ==
            IF is_match(source_text, suspicious_patterns)
            THEN SecretThreats(source_text, i, "source", 1) ELSE <<>>
        before == magics \o calls \o secrets
    IN IF cell.cell_type = "code" /\ cell.outputs.kind # "absent"
       THEN IF cell.outputs.kind = "null"
            THEN [raised |-> TRUE, threats |-> before, msg |-> NoneNotIterableMessage]
            ELSE ScanOutputs(cell.outputs.items, i, before)
       ELSE [raised |-> FALSE, threats |-> before, msg |-> <<>>]

\* lines 37-96: the loop over the cells, left at the first body that raises
RECURSIVE ScanCells(_, _, _)
ScanCells(cells, i, acc) ==
    IF i > Len(cells) THEN [raised |-> FALSE, threats |-> acc, msg |-> <<>>]
    ELSE LET r == ScanCell(cells[i], i)
         IN IF r.raised
            THEN [raised |-> TRUE, threats |-> acc \o r.threats, msg |-> r.msg]
            ELSE ScanCells(cells, i + 1, acc \o r.threats)

\* the .ipynb file: invalid JSON, a JSON number, an object without "cells",
\* or an object whose "cells" is a list
NotebookKinds == { "badjson", "number", "nocells", "ok" }
Notebook(kind, cells) == [kind |-> kind, cells |-> cells]

TopLevelNotIterableMessage == <<"argument of type 'int' is not iterable">>

\* lines 18-102
scan_notebook(file) ==
    CASE file.kind = "badjson" -> <<InvalidJsonThreat>>
      [] file.kind = "number" -> <<NotebookScanErrorThreat(TopLevelNotIterableMessage)>>
      [] file.kind = "nocells" -> <<>>
      [] OTHER ->
            LET r == ScanCells(file.cells, 1, <<>>)
            IN IF r.raised
               THEN Append(r.threats, NotebookScanErrorThreat(r.msg))
               ELSE r.threats

LongLine == <<"!">> \o [k \in 1..(PreviewLen + 1) |-> "a"]

\* cells that match no rule and have no output
BenignCells ==
    { Cell("markdown", StrVal(<<"x">>), NoOutputs),
      Cell("code", ListVal(<< <<"x", NL>>, <<"%", "t">> >>), Outputs(<<>>)),
      Cell("code", StrVal(<<SyntaxErrorToken>>), NoOutputs) }

CellSamples ==
    { Cell("code", ListVal(<< <<"!", "l", "s", NL>>, <<"x">> >>), NoOutputs),
      Cell("code", StrVal(<<" ", "%", "%", "s", "h", " ">>), Outputs(<<ImageOutput>>)),
      Cell("code", StrVal(LongLine), NoOutputs),
      Cell("code", StrVal(<<"os.system('id')", NL, "import os">>), NoOutputs),
      Cell("markdown", StrVal(<<"!", "l", "s", " ", "AKIA">>), NoOutputs),
      Cell("code", ListVal(<< <<"!", "l", "s", NL>>, <<RecursionErrorToken>> >>), NoOutputs),
      Cell("code", StrVal(<<"x">>),
           Outputs(<<StreamOutput(ListVal(<< <<"ghp_">> >>)),
                     ResultOutput(StrVal(<<"AKIA">>))>>)),
      Cell("code", StrVal(<<"eval(x)">>), Outputs(<<NumberOutput>>)),
      Cell("code", StrVal(<<"x">>), NullOutputs),
      NumberCell }

InsertAt(q, pos, x) == SubSeq(q, 1, pos - 1) \o <<x>> \o SubSeq(q, pos, Len(q))

NInit ==
    /\ PIdle
    /\ KIdle
    /\ DIdle
    /\ TIdle
    /\ CIdle
    /\ YIdle
    /\ LIdle
    /\ npc = "build"
    /\ nb \in { Notebook(kind, <<>>) : kind \in NotebookKinds }
    /\ nthreats = <<>>
    /\ nprev = <<>>
    /\ ninserted = 0

\* one more cell at the end of "cells"
NAddCell ==
    /\ npc = "build"
    /\ nb.kind = "ok"
    /\ Len(nb.cells) < MaxCells
    /\ \E c \in CellSamples \cup BenignCells :
          nb' = Notebook("ok", Append(nb.cells, c))
    /\ UNCHANGED <<npc, nthreats, nprev, ninserted>>
    /\ UNCHANGED notn

\* scan_notebook(file_path)
NScan ==
    /\ npc \in { "build", "inserted" }
    /\ nthreats' = scan_notebook(nb)
    /\ npc' = IF npc = "build" THEN "scanned" ELSE "rescanned"
    /\ UNCHANGED <<nb, nprev, ninserted>>
    /\ UNCHANGED notn

\* the notebook is edited: a cell that matches no rule is put at some place
NInsertCell ==
    /\ npc = "scanned"
    /\ nb.kind = "ok"
    /\ \E pos \in 1..(Len(nb.cells) + 1), c \in BenignCells :
          /\ nb' = Notebook("ok", InsertAt(nb.cells, pos, c))
          /\ ninserted' = pos
    /\ nprev' = nthreats
    /\ npc' = "inserted"
    /\ UNCHANGED nthreats
    /\ UNCHANGED notn

NNext == NAddCell \/ NScan \/ NInsertCell

NotebookSpec == NInit /\ [][NNext]_vars

(***************************************************************************)
(* Dataset engine (veritensor/engines/data/dataset_engine.py).             *)
(* The sizes are scaled down: a text is a sequence of tokens, a token      *)
(* counts as one character.                                                *)
(***************************************************************************)
MaxRows == 3

MAX_ROWS_DEFAULT == 2          \* 10_000 in the source
DATASET_CHUNK_SIZE == 2        \* CHUNK_SIZE = 1000 in the source, rows per batch
MIN_VALUE_LEN == 2             \* 5 in the source (line 62)
MAX_VALUE_LEN == 4             \* 4096 in the source (lines 66-67)

\* rules.SignatureLoader.get_prompt_injections
injections == <<"ignore previous instructions", "you are now DAN">>

\* the suspicious strings of a dataset: secrets and malicious URLs
dataset_suspicious == <<"AKIA", "http://evil.example">>

ShortText == <<"a">>
PlainText == <<"a", "b">>
SecretText == <<"AKIA", "a">>
UrlSecretText == <<"http://evil.example", " ", "AKIA">>
InjectionText == <<"ignore previous instructions", "AKIA">>
LateInjectionText == <<"a", "a", "a", "a", "you are now DAN">>

\* a JSON value of a .jsonl line
JStr(text) == [kind |-> "str", text |-> text, items |-> <<>>]
JNum == [kind |-> "num", text |-> <<>>, items |-> <<>>]
JArr(items) == [kind |-> "arr", text |-> <<>>, items |-> items]   \* list, or the values of a dict
BadLine == [kind |-> "bad", text |-> <<>>, items |-> <<>>]        \* json.loads raises

\* a value of a parquet string column
Null == <<>>

\* lines 147-155
RECURSIVE _extract_strings_from_json(_)
RECURSIVE ExtractFromItems(_, _)
ExtractFromItems(items, k) ==
    IF k > Len(items) THEN <<>>
    ELSE _extract_strings_from_json(items[k]) \o ExtractFromItems(items, k + 1)

_extract_strings_from_json(data) ==
    CASE data.kind = "str" -> <<data.text>>
      [] data.kind = "arr" -> ExtractFromItems(data.items, 1)
      [] OTHER -> <<>>

\* a value of the stream, with the row and the place in the row it comes from
RECURSIVE Tagged(_, _, _)
Tagged(texts, r, k) ==
    IF k > Len(texts) THEN <<>>
    ELSE <<[row |-> r, k |-> k, text |-> texts[k]]>> \o Tagged(texts, r, k + 1)

Limited(limit, count) == limit # 0 /\ count >= limit

\* lines 120-130: limit 0 stands for None
RECURSIVE _stream_csv(_, _, _)
_stream_csv(rows, limit, r) ==
    IF r > Len(rows) THEN <<>>
    ELSE Tagged(rows[r], r, 1)
         \o (IF Limited(limit, r) THEN <<>> ELSE _stream_csv(rows, limit, r + 1))

\* lines 132-145
RECURSIVE _stream_jsonl(_, _, _)
_stream_jsonl(rows, limit, r) ==
    IF r > Len(rows) THEN <<>>
    ELSE (IF rows[r].kind = "bad" THEN <<>>
          ELSE Tagged(_extract_strings_from_json(rows[r]), r, 1))
         \o (IF Limited(limit, r) THEN <<>> ELSE _stream_jsonl(rows, limit, r + 1))

\* lines 110-114: the values of one batch, column by column, nulls left out
RECURSIVE ColumnOfBatch(_, _, _, _)
ColumnOfBatch(rows, first, last, col) ==
    IF first > last THEN <<>>
    ELSE (IF rows[first][col] = Null THEN <<>>
          ELSE <<[row |-> first, k |-> col, text |-> rows[first][col]]>>)
         \o ColumnOfBatch(rows, first + 1, last, col)

ParquetColumns == 2

RECURSIVE ColumnsOfBatch(_, _, _, _)
ColumnsOfBatch(rows, first, last, col) ==
    IF col > ParquetColumns THEN <<>>
    ELSE ColumnOfBatch(rows, first, last, col)
         \o ColumnsOfBatch(rows, first, last, col + 1)

\* lines 94-118
RECURSIVE _stream_parquet(_, _, _)
_stream_parquet(rows, limit, count) ==
    IF count >= Len(rows) THEN <<>>
    ELSE ColumnsOfBatch(rows, count + 1,
                        Min(count + DATASET_CHUNK_SIZE, Len(rows)), 1)
         \o (IF Limited(limit, count + DATASET_CHUNK_SIZE) THEN <<>>
             ELSE _stream_parquet(rows, limit, count + DATASET_CHUNK_SIZE))

DatasetName(file) == <<"data", file.ext>>

InjectionThreat(file, pat) ==
    <<"HIGH", ": Data Poisoning (Injection) detected in ">> \o DatasetName(file)
        \o <<": '", pat, "'">>

\* line 81: "http" in pat
HttpInPattern(pat) == pat = "http://evil.example"

SuspiciousThreat(file, pat) ==
    <<"MEDIUM", ": ", IF HttpInPattern(pat) THEN "Malicious URL" ELSE "Secret/PII",
      " detected in dataset ">> \o DatasetName(file) \o <<": '", pat, "'">>
PyarrowMissingThreat ==
    <<"WARNING", ": pyarrow not installed. Run 'pip install veritensor[data]'">>
DatasetScanErrorThreat(msg) == <<"WARNING", ": Dataset Scan Error: ">> \o msg
DatasetOpenErrorMessage == <<"[Errno 13] Permission denied">>

\* lines 71-73: the first pattern of the list that matches
FirstMatch(text, pats) ==
    pats[CHOOSE k \in DOMAIN pats :
            /\ is_match(text, <<pats[k]>>)
            /\ \A j \in 1..(k - 1) : ~is_match(text, <<pats[j]>>)]

\* a loop that stops at the first suspicious pattern that matches
SuspiciousThreats_FirstOnly(file, text, k) ==
    IF k > 1 THEN <<>>
    ELSE <<SuspiciousThreat(file, FirstMatch(text, dataset_suspicious))>>

\* lines 78-82
RECURSIVE SuspiciousThreats(_, _, _)
SuspiciousThreats(file, text, k) ==
    IF k > Len(dataset_suspicious) THEN <<>>
    ELSE (IF is_match(text, <<dataset_suspicious[k]>>)
          THEN <<SuspiciousThreat(file, dataset_suspicious[k])>> ELSE <<>>)
         \o SuspiciousThreats(file, text, k + 1)

\* lines 60-86: the loop over the stream; row_limit 0 stands for None
RECURSIVE ScanStream(_, _, _, _, _, _, _)
ScanStream(file, stream, k, row_count, row_limit, threats, examined) ==
    IF k > Len(stream)
    THEN [threats |-> threats, examined |-> examined, end |-> "exhausted"]
    ELSE
    LET value == stream[k]
        seen == Append(examined, [row |-> value.row, k |-> value.k])
        text_chunk == Take(value.text, MAX_VALUE_LEN)
    IN IF Len(value.text) < MIN_VALUE_LEN
       THEN ScanStream(file, stream, k + 1, row_count, row_limit, threats, seen)
       ELSE IF is_match(text_chunk, injections)
       THEN [threats |-> Append(threats, InjectionThreat(file, FirstMatch(text_chunk, injections))),
             examined |-> seen, end |-> "failfast"]
       ELSE LET found == IF is_match(text_chunk, dataset_suspicious)
                         THEN threats \o SuspiciousThreats(file, text_chunk, 1)
                         ELSE threats
            IN IF Limited(row_limit, row_count + 1)
               THEN [threats |-> found, examined |-> seen, end |-> "limit"]
               ELSE ScanStream(file, stream, k + 1, row_count + 1, row_limit,
                               found, seen)

\* lines 26-92
scan_dataset(file, full_scan) ==
    LET row_limit == IF full_scan THEN 0 ELSE MAX_ROWS_DEFAULT
        none(end, threats) == [threats |-> threats, examined |-> <<>>, end |-> end]
        scan(stream) == ScanStream(file, stream, 1, 0, row_limit, <<>>, <<>>)
    IN CASE file.ext = ".parquet" /\ ~file.pyarrow -> none("nopyarrow", <<PyarrowMissingThreat>>)
         [] file.ext \notin { ".parquet", ".csv", ".jsonl" } -> none("notdataset", <<>>)
         [] file.ext \in { ".parquet", ".csv", ".jsonl" } /\ ~file.readable
              /\ (file.ext = ".parquet" => file.pyarrow) ->
                none("error", <<DatasetScanErrorThreat(DatasetOpenErrorMessage)>>)
         [] file.ext = ".parquet" /\ file.pyarrow /\ file.readable ->
                scan(_stream_parquet(file.rows, row_limit, 0))
         [] file.ext = ".csv" /\ file.readable -> scan(_stream_csv(file.rows, row_limit, 1))
         [] file.ext = ".jsonl" /\ file.readable -> scan(_stream_jsonl(file.rows, row_limit, 1))

CsvRows ==
    { <<>>, <<PlainText>>, <<ShortText, SecretText>>, <<PlainText, UrlSecretText>>,
      <<InjectionText>>, <<LateInjectionText, PlainText>> }

JsonLines ==
    { BadLine, JNum, JStr(PlainText),
      JArr(<<JStr(SecretText), JNum, JArr(<<JStr(PlainText)>>)>>),
      JArr(<<JStr(InjectionText)>>) }

ParquetRows ==
    { <<PlainText, Null>>, <<SecretText, PlainText>>, <<Null, InjectionText>>,
      <<ShortText, UrlSecretText>> }

RowsOf(ext) ==
    CASE ext = ".csv" -> CsvRows
      [] ext = ".jsonl" -> JsonLines
      [] ext = ".parquet" -> ParquetRows
      [] OTHER -> {}

DInit ==
    /\ PIdle
    /\ KIdle
    /\ NIdle
    /\ TIdle
    /\ CIdle
    /\ YIdle
    /\ LIdle
    /\ dpc = "build"
    /\ \E ext \in { ".csv", ".jsonl", ".parquet", ".txt" }, r \in BOOLEAN, pa \in BOOLEAN :
          /\ ext # ".parquet" => pa
          /\ dfile = [ext |-> ext, readable |-> r, pyarrow |-> pa, rows |-> <<>>]
    /\ dfull \in BOOLEAN
    /\ dthreats = <<>>
    /\ dexamined = <<>>
    /\ dend = "none"

\* one more row at the end of the file
DAddRow ==
    /\ dpc = "build"
    /\ dfile.readable
    /\ Len(dfile.rows) < MaxRows
    /\ \E row \in RowsOf(dfile.ext) :
          dfile' = [dfile EXCEPT !.rows = Append(@, row)]
    /\ UNCHANGED <<dpc, dfull, dthreats, dexamined, dend>>
    /\ UNCHANGED notd

\* scan_dataset(file_path, full_scan)
DScan ==
    /\ dpc = "build"
    /\ LET r == scan_dataset(dfile, dfull)
       IN /\ dthreats' = r.threats
          /\ dexamined' = r.examined
          /\ dend' = r.end
    /\ dpc' = "scanned"
    /\ UNCHANGED <<dfile, dfull>>
    /\ UNCHANGED notd

DNext == DAddRow \/ DScan

DatasetSpec == DInit /\ [][DNext]_vars

(***************************************************************************)
(* Document engine (veritensor/engines/content/injection.py).              *)
(* The window and the overlap are scaled down; a token counts as one       *)
(* character.                                                              *)
(***************************************************************************)
MaxDocLen == 7

CHUNK_SIZE == 3                \* 1024 * 1024 in the source
OVERLAP_SIZE == 2              \* 4096 in the source

TEXT_EXTENSIONS == { ".txt", ".md", ".json", ".yaml", ".py", ".log" }
DOC_EXTS == { ".pdf", ".docx", ".pptx" }

\* the buffer is not carried over to the next read
BufferAfter_Dropped(chunk) == SubSeq(chunk, Len(chunk) + 1, Len(chunk))

\* line 117: chunk[-OVERLAP_SIZE:]
BufferAfter(chunk) ==
    SubSeq(chunk, Len(chunk) - Min(OVERLAP_SIZE, Len(chunk)) + 1, Len(chunk))

\* lines 110-117: f.read(CHUNK_SIZE) from place pos on
RECURSIVE ReadFrom(_, _, _)
ReadFrom(data, pos, buffer) ==
    LET chunk == SubSeq(data, pos, Min(pos + CHUNK_SIZE - 1, Len(data)))
    IN IF chunk = <<>> THEN <<>>
       ELSE <<buffer \o chunk>>
            \o ReadFrom(data, pos + Len(chunk), BufferAfter(chunk))

\* lines 108-117
_read_text_sliding(data) == ReadFrom(data, 1, <<>>)

\* lines 119-121
_yield_string_chunks(text) == IF text = <<>> THEN <<>> ELSE <<text>>

\* lines 123-161: the text of a PDF, Word or slide document, "" when the
\* library cannot read it
ExtractText(file) == IF file.readable THEN file.content ELSE <<>>

\* the characters of a file, each with its place
Indexed(content) == [i \in 1..Len(content) |-> [at |-> i, ch |-> content[i]]]

\* what the scan sees of a chunk
Chars(chunk) == [i \in 1..Len(chunk) |-> chunk[i].ch]

\* content.pii.PIIScanner.scan: one finding per kind of personal data
PiiKinds == <<[tok |-> "a@b.c", label |-> "EMAIL_ADDRESS"]>>

PiiThreat(label) == <<"MEDIUM", ": PII detected: ", label>>

RECURSIVE PiiFrom(_, _)
PiiFrom(text, k) ==
    IF k > Len(PiiKinds) THEN <<>>
    ELSE (IF Contains(text, PiiKinds[k].tok) THEN <<PiiThreat(PiiKinds[k].label)>> ELSE <<>>)
         \o PiiFrom(text, k + 1)

PIIScanner_scan(text) == PiiFrom(text, 1)

DocName(file) == <<"doc", file.ext>>

PromptInjectionThreat(file, pat) ==
    <<"HIGH", ": Prompt Injection detected in ">> \o DocName(file) \o <<": '", pat, "'">>
DocScanErrorThreat(msg) == <<"WARNING", ": Doc Scan Error: ">> \o msg
DocOpenErrorMessage == <<"[Errno 13] Permission denied">>

\* the matcher asked first, and the other one only when it finds nothing:
\* here the PII matcher first
ChunkVerdict_PiiFirst(file, text) ==
    IF PIIScanner_scan(text) # <<>>
    THEN [stop |-> TRUE, pii_asked |-> TRUE, threats |-> PIIScanner_scan(text)]
    ELSE IF is_match(text, injections)
    THEN [stop |-> TRUE, pii_asked |-> TRUE,
          threats |-> <<PromptInjectionThreat(file, FirstMatch(text, injections))>>]
    ELSE [stop |-> FALSE, pii_asked |-> TRUE, threats |-> <<>>]

\* lines 87-100: the body of the loop for one chunk
ChunkVerdict(file, text) ==
    IF is_match(text, injections)
    THEN [stop |-> TRUE, pii_asked |-> FALSE,
          threats |-> <<PromptInjectionThreat(file, FirstMatch(text, injections))>>]
    ELSE IF PIIScanner_scan(text) # <<>>
    THEN [stop |-> TRUE, pii_asked |-> TRUE, threats |-> PIIScanner_scan(text)]
    ELSE [stop |-> FALSE, pii_asked |-> TRUE, threats |-> <<>>]

\* lines 86-100: the loop over the chunks
RECURSIVE ScanChunks(_, _, _, _)
ScanChunks(file, chunks, k, fed) ==
    IF k > Len(chunks) THEN [threats |-> <<>>, read |-> Len(chunks), fed |-> fed]
    ELSE LET v == ChunkVerdict(file, Chars(chunks[k]))
             asked == IF v.pii_asked THEN Append(fed, k) ELSE fed
         IN IF v.stop THEN [threats |-> v.threats, read |-> k, fed |-> asked]
            ELSE ScanChunks(file, chunks, k + 1, asked)

\* lines 69-83: the text generator of the file, <<>> when there is none
ChunksOf(file) ==
    CASE file.ext \in TEXT_EXTENSIONS -> _read_text_sliding(Indexed(file.content))
      [] file.ext \in DOC_EXTS /\ file.available ->
            _yield_string_chunks(Indexed(ExtractText(file)))
      [] OTHER -> <<>>

\* lines 58-106
scan_document(file) ==
    IF file.ext \in TEXT_EXTENSIONS /\ ~file.readable
    THEN [threats |-> <<DocScanErrorThreat(DocOpenErrorMessage)>>, read |-> 0, fed |-> <<>>]
    ELSE ScanChunks(file, ChunksOf(file), 1, <<>>)

DocChars == { "a", "ignore previous instructions", "you are now DAN", "a@b.c" }

TInit ==
    /\ PIdle
    /\ KIdle
    /\ NIdle
    /\ DIdle
    /\ CIdle
    /\ YIdle
    /\ LIdle
    /\ tpc = "build"
    /\ \E ext \in { ".txt", ".pdf", ".bin" }, av \in BOOLEAN, r \in BOOLEAN :
          /\ ext # ".pdf" => av
          /\ ext = ".bin" => r
          /\ tfile = [ext |-> ext, available |-> av, readable |-> r, content |-> <<>>]
    /\ tchunks = <<>>
    /\ tread = 0
    /\ tfed = <<>>
    /\ tthreats = <<>>

\* one more character at the end of the file
TAppend ==
    /\ tpc = "build"
    /\ tfile.readable
    /\ Len(tfile.content) < MaxDocLen
    /\ \E c \in DocChars :
          tfile' = [tfile EXCEPT !.content = Append(@, c)]
    /\ UNCHANGED <<tpc, tchunks, tread, tfed, tthreats>>
    /\ UNCHANGED nott

\* scan_document(file_path)
TScan ==
    /\ tpc = "build"
    /\ LET r == scan_document(tfile)
       IN /\ tthreats' = r.threats
          /\ tread' = r.read
          /\ tfed' = r.fed
    /\ tchunks' = IF tfile.readable THEN ChunksOf(tfile) ELSE <<>>
    /\ tpc' = "scanned"
    /\ UNCHANGED tfile
    /\ UNCHANGED nott

TNext == TAppend \/ TScan

DocumentSpec == TInit /\ [][TNext]_vars

(***************************************************************************)
(* Hash cache (veritensor.core.cache.HashCache): the table                 *)
(* file_cache(path PRIMARY KEY, size, mtime_ns, digest).                   *)
(***************************************************************************)
MaxMtime == 2

FileSizes == { 1, 2 }
Mtimes == 1..MaxMtime
Digests == { "hash_123", "hash_456" }

\* get looks the row up by path alone
HashCache_get_PathOnly(table, files, path) == table[path].digest

\* HashCache.get: the digest of the row whose path, size and mtime_ns are
\* those of the file now, "none" when there is no such row
HashCache_get(table, files, path) ==
    IF /\ table[path] # NoRow
       /\ table[path].size = files[path].size
       /\ table[path].mtime_ns = files[path].mtime_ns
    THEN table[path].digest
    ELSE "none"

\* HashCache.set: INSERT OR REPLACE of the row of the path
HashCache_set(table, files, path, digest) ==
    [table EXCEPT ![path] =
        [size |-> files[path].size, mtime_ns |-> files[path].mtime_ns,
         digest |-> digest]]

CInit ==
    /\ PIdle
    /\ KIdle
    /\ NIdle
    /\ DIdle
    /\ TIdle
    /\ YIdle
    /\ LIdle
    /\ cpc = "ready"
    /\ cfiles \in [CachePaths -> [size : FileSizes, mtime_ns : Mtimes]]
    /\ ctable = [p \in CachePaths |-> NoRow]
    /\ cgot = [path |-> "none", digest |-> "none"]
    /\ clastset = [p \in CachePaths |-> NoRow]

\* cache.set(f, digest)
CSet ==
    /\ cpc \in { "ready", "got" }
    /\ \E p \in CachePaths, h \in Digests :
          /\ ctable' = HashCache_set(ctable, cfiles, p, h)
          /\ clastset' = [clastset EXCEPT ![p] =
                [size |-> cfiles[p].size, mtime_ns |-> cfiles[p].mtime_ns, digest |-> h]]
    /\ cpc' = "ready"
    /\ UNCHANGED <<cfiles, cgot>>
    /\ UNCHANGED notc

\* cache.get(f)
CGet ==
    /\ cpc \in { "ready", "got" }
    /\ \E p \in CachePaths :
          cgot' = [path |-> p, digest |-> HashCache_get(ctable, cfiles, p)]
    /\ cpc' = "got"
    /\ UNCHANGED <<cfiles, ctable, clastset>>
    /\ UNCHANGED notc

\* the file is written to: its size, its mtime or both change
CModify ==
    /\ cpc \in { "ready", "got" }
    /\ \E p \in CachePaths, sz \in FileSizes, mt \in Mtimes :
          /\ [size |-> sz, mtime_ns |-> mt] # cfiles[p]
          /\ cfiles' = [cfiles EXCEPT ![p] = [size |-> sz, mtime_ns |-> mt]]
    /\ cpc' = "ready"
    /\ UNCHANGED <<ctable, cgot, clastset>>
    /\ UNCHANGED notc

CNext == CSet \/ CGet \/ CModify

CacheSpec == CInit /\ [][CNext]_vars

(***************************************************************************)
(* Dependency engine: the edit-distance predicate                          *)
(* (veritensor.engines.static.dependency_engine._is_typo).                 *)
(***************************************************************************)
MaxNameLen == 3

Abs(x) == IF x < 0 THEN -x ELSE x

\* the scan that takes every difference for a substitution
RECURSIVE TwoPointer_SubstitutionOnly(_, _, _, _, _)
TwoPointer_SubstitutionOnly(a, b, i, j, edits) ==
    IF i > Len(a) \/ j > Len(b)
    THEN edits + (Len(a) - i + 1) + (Len(b) - j + 1) = 1
    ELSE IF a[i] = b[j] THEN TwoPointer_SubstitutionOnly(a, b, i + 1, j + 1, edits)
    ELSE IF edits >= 1 THEN FALSE
    ELSE TwoPointer_SubstitutionOnly(a, b, i + 1, j + 1, edits + 1)

\* the two-pointer scan: at the first difference the pointer of the longer
\* string moves alone (both move when the lengths are equal); a second
\* difference, or more than one character left over, is no typo
RECURSIVE TwoPointer(_, _, _, _, _)
TwoPointer(a, b, i, j, edits) ==
    IF i > Len(a) \/ j > Len(b)
    THEN edits + (Len(a) - i + 1) + (Len(b) - j + 1) = 1
    ELSE IF a[i] = b[j] THEN TwoPointer(a, b, i + 1, j + 1, edits)
    ELSE IF edits >= 1 THEN FALSE
    ELSE IF Len(a) > Len(b) THEN TwoPointer(a, b, i + 1, j, edits + 1)
    ELSE IF Len(a) < Len(b) THEN TwoPointer(a, b, i, j + 1, edits + 1)
    ELSE TwoPointer(a, b, i + 1, j + 1, edits + 1)

_is_typo(a, b) ==
    /\ a # b
    /\ Abs(Len(a) - Len(b)) <= 1
    /\ TwoPointer(a, b, 1, 1, 0)

NameChars == { "t", "o", "r" }

YInit ==
    /\ PIdle
    /\ KIdle
    /\ NIdle
    /\ DIdle
    /\ TIdle
    /\ CIdle
    /\ LIdle
    /\ ypc = "ready"
    /\ yname \in SeqsUpTo(NameChars, MaxNameLen)
    /\ ypopular \in SeqsUpTo(NameChars, MaxNameLen)
    /\ yresult = <<FALSE, FALSE>>

\* _is_typo(name, popular) and _is_typo(popular, name)
YCheck ==
    /\ ypc = "ready"
    /\ yresult' = <<_is_typo(yname, ypopular), _is_typo(ypopular, yname)>>
    /\ ypc' = "checked"
    /\ UNCHANGED <<yname, ypopular>>
    /\ UNCHANGED noty

YNext == YCheck

TypoSpec == YInit /\ [][YNext]_vars

(***************************************************************************)
(* Configuration loader (scanner/src/aegis/core/config.py) and the line of *)
(* the scan command that calls it (cli/main.py, line 52).                  *)
(***************************************************************************)
EnvVars == { "AEGIS_HF_TOKEN", "HF_TOKEN", "AEGIS_PRIVATE_KEY_PATH", "AEGIS_FAIL_ON" }

\* the value a variable has when it is set
EnvValue(v) ==
    CASE v = "AEGIS_HF_TOKEN" -> "hf_aegis_env"
      [] v = "HF_TOKEN" -> "hf_env"
      [] v = "AEGIS_PRIVATE_KEY_PATH" -> "/env/cosign.key"
      [] v = "AEGIS_FAIL_ON" -> "LOW"

Environments == { e \in [EnvVars -> { Unset, "set" }] : TRUE }

EnvGet(env, v) == IF env[v] = Unset THEN Unset ELSE EnvValue(v)

ConfigKeys == { "hf_token", "private_key_path", "fail_on_severity" }

\* the value the file gives a key it has
FileValue(key) ==
    CASE key = "hf_token" -> "hf_file"
      [] key = "private_key_path" -> "/file/cosign.key"
      [] key = "fail_on_severity" -> "HIGH"

\* AegisConfig, lines 27-55, and the defaults of lines 106-113
DefaultValue(key) == IF key = "fail_on_severity" THEN "CRITICAL" ELSE "None"

\* the config file: absent, not valid YAML, valid YAML that is no mapping,
\* or a mapping with some of the keys
ConfigFiles ==
    { NoFile, [state |-> "unparsable", keys |-> {}],
      [state |-> "notmapping", keys |-> {}] }
    \cup { [state |-> "ok", keys |-> ks] :
             ks \in { {}, { "fail_on_severity" }, { "hf_token", "private_key_path" },
                      ConfigKeys } }

Missing == "<missing>"

\* lines 73-88: config_data after the file was read, and what was logged
ReadConfigFile(file, yaml) ==
    LET empty == [key \in ConfigKeys |-> Missing]
    IN CASE file.state = "absent" -> [data |-> empty, logged |-> <<>>]
         [] file.state # "absent" /\ ~yaml ->
                [data |-> empty, logged |-> <<"WARNING: PyYAML not installed, skipping config file">>]
         [] file.state \in { "unparsable", "notmapping" } /\ yaml ->
                [data |-> empty, logged |-> <<"ERROR: Failed to parse">>]
         [] file.state = "ok" /\ yaml ->
                [data |-> [key \in ConfigKeys |->
                              IF key \in file.keys THEN FileValue(key) ELSE Missing],
                 logged |-> <<"INFO: Loaded configuration">>]

\* HF_TOKEN is looked at first and wins over AEGIS_HF_TOKEN
EnvOverride_HfTokenFirst(data, env) ==
    [key \in ConfigKeys |->
        CASE key = "hf_token" ->
                IF env["HF_TOKEN"] # Unset THEN EnvGet(env, "HF_TOKEN")
                ELSE IF env["AEGIS_HF_TOKEN"] # Unset THEN EnvGet(env, "AEGIS_HF_TOKEN")
                ELSE data[key]
          [] key = "private_key_path" ->
                IF env["AEGIS_PRIVATE_KEY_PATH"] # Unset
                THEN EnvGet(env, "AEGIS_PRIVATE_KEY_PATH") ELSE data[key]
          [] key = "fail_on_severity" ->
                IF env["AEGIS_FAIL_ON"] # Unset
                THEN EnvGet(env, "AEGIS_FAIL_ON") ELSE data[key]]

\* lines 90-103
EnvOverride(data, env) ==
    [key \in ConfigKeys |->
        CASE key = "hf_token" ->
                IF env["AEGIS_HF_TOKEN"] # Unset THEN EnvGet(env, "AEGIS_HF_TOKEN")
                ELSE IF env["HF_TOKEN"] # Unset THEN EnvGet(env, "HF_TOKEN")
                ELSE data[key]
          [] key = "private_key_path" ->
                IF env["AEGIS_PRIVATE_KEY_PATH"] # Unset
                THEN EnvGet(env, "AEGIS_PRIVATE_KEY_PATH") ELSE data[key]
          [] key = "fail_on_severity" ->
                IF env["AEGIS_FAIL_ON"] # Unset
                THEN EnvGet(env, "AEGIS_FAIL_ON") ELSE data[key]]

\* lines 105-113: config_data.get(key, default)
Construct(data) ==
    [built |-> TRUE,
     values |-> [key \in ConfigKeys |->
                    IF data[key] = Missing THEN DefaultValue(key) ELSE data[key]]]

\* a loader that builds the configuration at every call
ConfigLoader_load_Rebuild(instance, file, yaml, env) ==
    Construct(EnvOverride(ReadConfigFile(file, yaml).data, env))

\* lines 64-115
ConfigLoader_load(instance, file, yaml, env) ==
    IF instance # NoInstance THEN instance
    ELSE Construct(EnvOverride(ReadConfigFile(file, yaml).data, env))

LInit ==
    /\ PIdle
    /\ KIdle
    /\ NIdle
    /\ DIdle
    /\ TIdle
    /\ CIdle
    /\ YIdle
    /\ lpc = "start"
    /\ lenv \in Environments
    /\ lfile \in ConfigFiles
    /\ lyaml \in BOOLEAN
    /\ linstance = NoInstance
    /\ lbuilt = NoInstance
    /\ llog = <<>>
    /\ lscan = NoInstance

\* what a call of load() does to the loader
Loaded ==
    /\ linstance' = ConfigLoader_load(linstance, lfile, lyaml, lenv)
    /\ IF linstance = NoInstance
       THEN /\ lbuilt' = [built |-> TRUE, env |-> lenv, file |-> lfile, yaml |-> lyaml]
            /\ llog' = ReadConfigFile(lfile, lyaml).logged
       ELSE UNCHANGED <<lbuilt, llog>>

\* the position after a call of load(): "reloaded" when the environment or
\* the file changed since the configuration was built
AfterLoad == IF lpc \in { "changed", "reloaded" } THEN "reloaded" ELSE "loaded"

\* the position after a change of the environment or of the file
AfterChange == IF lpc = "start" THEN "start" ELSE "changed"

LPositions == { "start", "loaded", "changed", "reloaded" }

\* ConfigLoader.load() called by any part of the program
LLoad ==
    /\ lpc \in LPositions
    /\ Loaded
    /\ lpc' = AfterLoad
    /\ UNCHANGED <<lenv, lfile, lyaml, lscan>>
    /\ UNCHANGED notl

\* main.py line 52: the scan command takes its configuration from load()
LScan ==
    /\ lpc \in LPositions
    /\ Loaded
    /\ lscan' = linstance'
    /\ lpc' = AfterLoad
    /\ UNCHANGED <<lenv, lfile, lyaml>>
    /\ UNCHANGED notl

\* the environment of the process changes
LChangeEnv ==
    /\ lpc \in LPositions
    /\ \E v \in EnvVars :
          lenv' = [lenv EXCEPT ![v] = IF @ = Unset THEN "set" ELSE Unset]
    /\ lpc' = AfterChange
    /\ UNCHANGED <<lfile, lyaml, linstance, lbuilt, llog, lscan>>
    /\ UNCHANGED notl

\* the config file is rewritten
LChangeFile ==
    /\ lpc \in LPositions
    /\ \E f \in ConfigFiles : f # lfile /\ lfile' = f
    /\ lpc' = AfterChange
    /\ UNCHANGED <<lenv, lyaml, linstance, lbuilt, llog, lscan>>
    /\ UNCHANGED notl

LNext == LLoad \/ LScan \/ LChangeEnv \/ LChangeFile

ConfigSpec == LInit /\ [][LNext]_vars

(***************************************************************************)
(* Vocabulary of the claims                                                *)
(***************************************************************************)
SeverityLabels == { "CRITICAL", "HIGH", "MEDIUM", "LOW", "WARNING" }

SeverityRank(sev) ==
    CASE sev = "CRITICAL" -> 4
      [] sev = "HIGH" -> 3
      [] sev = "MEDIUM" -> 2
      [] sev = "LOW" -> 1
      [] OTHER -> 0

\* the severity a threat string carries; an engine's scan error is CRITICAL,
\* a hashing or transport error carries none
ThreatSeverity(t) ==
    IF t[1] \in SeverityLabels THEN t[1]
    ELSE IF t[1] = "Scan Error: " THEN "CRITICAL"
    ELSE "WARNING"

MeetsThreshold(t) ==
    SeverityRank(ThreatSeverity(t)) >= SeverityRank(config.fail_on_severity)

Mismatch(k) == log[k].verification.value = "MISMATCH"

\* file k has a blocking threat: one that survives the ignored-rules filter
\* and meets fail_on_severity, or identity MISMATCH
FileBlocking(k) ==
    \/ \E j \in DOMAIN results[k].threats :
          /\ results[k].threats[j] \notin config.ignored_rules
          /\ MeetsThreshold(results[k].threats[j])
    \/ Mismatch(k)

AnyBlocking == \E k \in DOMAIN results : FileBlocking(k)

\* the command has ended after scanning (PATH existed)
Ended == pc = "exit" /\ path_kind # "missing"

AllScanned == Len(results) = Len(files_to_scan)

\* C1: the scan of an existing path ends with exit 1 iff some scanned file has
\* a blocking threat and force mode is off, with exit 0 otherwise, and a
\* blocking threat under force mode gives the verdict forced_approval.
C1_ExitOneIffBlockingAndNotForced ==
    Ended =>
        /\ exit_code = 1 <=> (AnyBlocking /\ ~force)
        /\ exit_code = 0 <=> ~(AnyBlocking /\ ~force)
        /\ (AnyBlocking /\ force) => sign_status = "forced_approval"

\* C2: a run in which every emitted threat is below fail_on_severity and no
\* file has identity MISMATCH ends with the verdict success, never blocking.
C2_BelowThresholdIsSuccess ==
    ( /\ Ended
      /\ \A k \in DOMAIN results :
            /\ ~Mismatch(k)
            /\ \A j \in DOMAIN results[k].threats :
                  ~MeetsThreshold(results[k].threats[j]) )
    => (exit_code = 0 /\ sign_status = "clean")

\* C3: with a repository configured, a file whose identity check returns
\* MISMATCH carries the CRITICAL hash-mismatch threat and the run is blocking
\* (exit 1, or forced_approval under force mode), whatever the format engine
\* reported for that file.
C3_MismatchIsCriticalAndBlocks ==
    \A k \in DOMAIN results :
        (repo # NoRepo /\ Mismatch(k)) =>
            /\ \E j \in DOMAIN results[k].threats :
                  /\ results[k].threats[j] = HashMismatchThreat(repo)
                  /\ ThreatSeverity(results[k].threats[j]) = "CRITICAL"
            /\ has_critical_errors
            /\ Ended => IF force
                        THEN exit_code = 0 /\ sign_status = "forced_approval"
                        ELSE exit_code = 1 /\ signing_calls = <<>>

C3_Witness ==
    /\ Ended
    /\ ~force
    /\ exit_code = 1
    /\ \E k \in DOMAIN results :
          /\ Mismatch(k)
          /\ log[k].engine_threats = <<>>
    /\ \A k \in DOMAIN results : log[k].engine_threats = <<>>

\* the identity check of file k returned UNKNOWN, or hashing or the registry
\* call failed
IdentityUnknownOrError(k) ==
    \/ ~log[k].hash.ok
    \/ log[k].verification.raised
    \/ log[k].verification.value = "UNKNOWN"

\* C4: a file whose identity check returns UNKNOWN or fails with a hashing or
\* transport error is never treated as MISMATCH, and when the format engine
\* reports nothing for it, it does not make the verdict blocking.
C4_IdentityFailOpen ==
    /\ \A k \in DOMAIN results :
          IdentityUnknownOrError(k) =>
              \A j \in DOMAIN results[k].threats :
                  results[k].threats[j] # HashMismatchThreat(repo)
    /\ ( /\ Ended
         /\ \A k \in DOMAIN results :
               /\ log[k].engine_threats = <<>>
               /\ ~Mismatch(k) )
       => exit_code = 0

\* C5: signing happens only after every file is scanned and reported and the
\* verdict is computed, only when an image was given, never in a blocking
\* run; its status is clean exactly when no blocking threat was found and
\* forced_approval exactly when one was found under force mode.
C5_SigningAfterVerdict ==
    /\ Len(signing_calls) <= 1
    /\ signing_calls # <<>> =>
          /\ AllScanned
          /\ reported = results
          /\ sign_status # "unset"
          /\ image
          /\ exit_code = 0
          /\ signing_calls[1].status = "clean" <=> ~AnyBlocking
          /\ signing_calls[1].status = "forced_approval" <=> (AnyBlocking /\ force)
    /\ (Ended /\ exit_code = 1) => signing_calls = <<>>
    /\ (Ended /\ exit_code = 0 /\ image) => signing_calls # <<>>

\* the engine could not read or parse file k
EngineFailed(k) ==
    \/ log[k].engine = "pickle" /\ log[k].input.raised
    \/ /\ log[k].engine = "keras"
       /\ \/ log[k].input.is_zip /\ log[k].input.zmember = "badjson"
          \/ /\ ~log[k].input.is_zip /\ log[k].input.hdf5_sig /\ log[k].input.h5py
             /\ log[k].input.hattr \in { "unreadable", "badjson" }

HasThreatStarting(k, tok) ==
    \E j \in DOMAIN results[k].threats : results[k].threats[j][1] = tok

\* C6: one ScanResult per file in enumeration order, all reported before the
\* verdict; a hashing, identity-check or engine failure on file k is recorded
\* as a threat on file k, the engine still runs after a hashing failure, and
\* the files after k are still scanned.
C6_OneResultPerFileFailuresRecorded ==
    /\ Len(results) <= Len(files_to_scan)
    /\ \A k \in DOMAIN results :
          /\ results[k].file_path = files_to_scan[k]
          /\ (~log[k].hash.ok \/ log[k].verification.raised)
                => HasThreatStarting(k, "Hashing Error: ")
          /\ EngineFailed(k) =>
                \E j \in DOMAIN results[k].threats :
                    /\ results[k].threats[j][1] \notin { "Hashing Error: " }
                    /\ results[k].threats[j] # HashMismatchThreat(repo)
                    /\ results[k].threats[j] # UnknownFileThreat(repo)
          /\ \A j \in DOMAIN log[k].engine_threats :
                \E i \in DOMAIN results[k].threats :
                    results[k].threats[i] = log[k].engine_threats[j]
    /\ (pc \in { "decide", "sign", "exit" } /\ path_kind # "missing") =>
          /\ AllScanned
          /\ reported = results

\* C7: a threat that matches an entry of ignored_rules never appears in an
\* emitted ScanResult and never makes the verdict blocking.
C7_IgnoredRulesFiltered ==
    /\ \A k \in DOMAIN results :
          \A j \in DOMAIN results[k].threats :
              results[k].threats[j] \notin config.ignored_rules
    /\ ( /\ Ended
         /\ \A k \in DOMAIN results :
               /\ ~Mismatch(k)
               /\ \A j \in DOMAIN results[k].threats :
                     \/ results[k].threats[j] \in config.ignored_rules
                     \/ ~MeetsThreshold(results[k].threats[j]) )
       => exit_code = 0

TextFamily == { ".txt", ".md", ".json", ".yaml", ".toml", ".py", ".js" }

\* the engine dispatch table of the specification
DispatchTable(name) ==
    LET ext == Lower(name.suffix) IN
    CASE name.stem = "requirements" /\ ext = ".txt" -> "dependency"
      [] name.stem = "pyproject" /\ ext = ".toml" -> "dependency"
      [] ext \in { ".pt", ".pth", ".bin", ".pkl", ".ckpt" } -> "pickle"
      [] ext \in { ".h5", ".keras" } -> "keras"
      [] ext = ".ipynb" -> "notebook"
      [] ext \in TextFamily \cup { ".pdf", ".docx", ".pptx" } -> "document"
      [] ext \in { ".parquet", ".csv", ".jsonl" } -> "dataset"
      [] OTHER -> "none"

\* C8: the engine run on each file is the one the dispatch table gives for its
\* extension, compared case-insensitively; no format engine runs on
\* .safetensors and .gguf, so a run over safetensors files that the registry
\* verifies gives all-verified results without threats and exit 0.
C8_EngineByDispatchTable ==
    /\ \A k \in DOMAIN results :
          log[k].engine = DispatchTable(files_to_scan[k])
    /\ ( /\ Ended
         /\ \A k \in DOMAIN results :
               /\ files_to_scan[k].suffix = ".safetensors"
               /\ log[k].hash.ok
               /\ log[k].verification.value = "VERIFIED" )
       => /\ exit_code = 0
          /\ \A k \in DOMAIN results :
                /\ results[k].identity_verified
                /\ results[k].threats = <<>>

RECURSIVE ReachableLambdas(_)
RECURSIVE ReachableLambdasIn(_, _)

\* the Lambda layers among items[k..] and below them
ReachableLambdasIn(items, k) ==
    IF k > Len(items) THEN 0
    ELSE LET layer == items[k]
             here == IF IsDict(layer) /\ layer.class_name = "Lambda" THEN 1 ELSE 0
             below == IF IsDict(layer) /\ layer.class_name \in NestingClasses
                      THEN ReachableLambdas(layer.config) ELSE 0
         IN here + below + ReachableLambdasIn(items, k + 1)

\* the number of Lambda layers reachable from config.layers through Model,
\* Functional and Sequential layers; a level whose layers is no list has none
ReachableLambdas(cfg) ==
    IF ~IsDict(cfg) THEN 0
    ELSE LET model_config == IF cfg.config = Absent THEN cfg ELSE cfg.config IN
         IF ~IsDict(model_config) THEN 0
         ELSE IF model_config.layers = Absent THEN 0
         ELSE IF ~IsList(model_config.layers) THEN 0
         ELSE ReachableLambdasIn(model_config.layers.items, 1)

\* C9: for every parsed configuration the Keras walk returns exactly one
\* CRITICAL threat per reachable Lambda layer and nothing else.
C9_OneCriticalPerReachableLambda ==
    kpc \in { "analyzed", "scanned" } =>
        /\ Len(kanalysis.threats) = ReachableLambdas(kconfig)
        /\ \A j \in DOMAIN kanalysis.threats : kanalysis.threats[j] = LambdaThreat

\* C10: a file with the HDF5 signature is handled as HDF5, also when it is a
\* valid zip; the zip path is taken only without the signature; a file that
\* is neither gives no threat.
C10_Hdf5SignatureFirst ==
    kpc = "scanned" =>
        /\ kfile.hdf5_sig => kformat = "hdf5"
        /\ kformat = "zip" <=> (~kfile.hdf5_sig /\ kfile.is_zip)
        /\ (~kfile.hdf5_sig /\ ~kfile.is_zip) => kthreats = <<>>

\* C10 (amended): the zip probe comes first: every valid zip archive is
\* handled as zip and read from member config.json, also when its first eight
\* bytes are the HDF5 signature; the HDF5 path is taken only for a file that
\* is no valid zip and has the signature; a file that is neither gives no
\* threat.
C10_ZipProbeFirst ==
    kpc = "scanned" =>
        /\ kfile.is_zip => kformat = "zip"
        /\ kformat = "hdf5" <=> (~kfile.is_zip /\ kfile.hdf5_sig)
        /\ (kformat = "zip" /\ kfile.zmember # "ok") => kthreats = <<>>
        /\ (kformat = "zip" /\ kfile.zmember = "ok" /\ ReachableLambdas(kfile.zconfig) = 0)
              => kthreats = <<>>
        /\ (kformat = "hdf5" /\ ~kfile.h5py) => kthreats = <<H5pyMissingThreat>>
        /\ (~kfile.hdf5_sig /\ ~kfile.is_zip) => (kformat = "none" /\ kthreats = <<>>)

\* a zip archive that starts with the HDF5 signature, whose model_config holds
\* a Lambda layer and whose config.json holds none
C10_Witness ==
    /\ kpc = "scanned"
    /\ kfile.is_zip /\ kfile.hdf5_sig /\ kfile.h5py
    /\ kfile.zmember = "ok" /\ ReachableLambdas(kfile.zconfig) = 0
    /\ kfile.hattr = "ok" /\ ReachableLambdas(kfile.hconfig) > 0
    /\ kformat = "zip"
    /\ kthreats = <<>>

(***************************************************************************)
(* Notebook engine: claims                                                 *)
(***************************************************************************)
NScanned == npc \in { "scanned", "rescanned" } /\ nb.kind = "ok"

IsDirectiveThreat(t) ==
    Len(t) >= 2 /\ t[1] = "HIGH"
    /\ t[2] = ": Jupyter Magic execution detected in cell "

RECURSIVE DirectiveThreatsIn(_)
DirectiveThreatsIn(ts) ==
    IF ts = <<>> THEN <<>>
    ELSE (IF IsDirectiveThreat(Head(ts)) THEN <<Head(ts)>> ELSE <<>>)
         \o DirectiveThreatsIn(Tail(ts))

\* !, %%bash, %%sh, %%script, %%perl, %%ruby, %system
Directives ==
    { <<"!">>, <<"%", "%", "b", "a", "s", "h">>, <<"%", "%", "s", "h">>,
      <<"%", "%", "s", "c", "r", "i", "p", "t">>, <<"%", "%", "p", "e", "r", "l">>,
      <<"%", "%", "r", "u", "b", "y">>, <<"%", "s", "y", "s", "t", "e", "m">> }

IsDirectiveLine(line) == \E d \in Directives : StartsWith(Strip(line), d)

IsCodeCell(c) == c.kind = "dict" /\ c.cell_type = "code"

RECURSIVE ExpectedOfLines(_, _)
ExpectedOfLines(lines, k) ==
    IF lines = <<>> THEN <<>>
    ELSE (IF IsDirectiveLine(Head(lines))
          THEN <<MagicThreat(k, Strip(Head(lines)))>> ELSE <<>>)
         \o ExpectedOfLines(Tail(lines), k)

RECURSIVE ExpectedDirectiveThreats(_, _)
ExpectedDirectiveThreats(cells, k) ==
    IF k > Len(cells) THEN <<>>
    ELSE (IF IsCodeCell(cells[k])
          THEN ExpectedOfLines(SplitLines(TextOf(cells[k].source)), k)
          ELSE <<>>)
         \o ExpectedDirectiveThreats(cells, k + 1)

\* C11: cells are numbered from 1; every line of a code cell whose stripped
\* text starts with a directive gives exactly one HIGH threat naming the cell
\* and the first 50 characters of the stripped line, and nothing else gives a
\* directive threat.
C11_OneHighPerDirectiveLine ==
    NScanned =>
        DirectiveThreatsIn(nthreats) = ExpectedDirectiveThreats(nb.cells, 1)

\* C19: the number of threats of a notebook is the same after a cell that
\* matches no rule and has no output was added at any place.
C19_BenignCellKeepsThreatCount ==
    npc = "rescanned" => Len(nthreats) = Len(nprev)

C19_Witness ==
    /\ npc = "rescanned"
    /\ ninserted = 1
    /\ Len(nb.cells) >= 2
    /\ Len(nprev) >= 2
    /\ Len(nthreats) = Len(nprev)
    /\ nthreats # nprev

(***************************************************************************)
(* Dataset engine: claims                                                  *)
(***************************************************************************)
\* the string cells of row r, as places in the row
StringCells(file, r) ==
    CASE file.ext = ".csv" -> 1..Len(file.rows[r])
      [] file.ext = ".jsonl" -> 1..Len(_extract_strings_from_json(file.rows[r]))
      [] OTHER -> { c \in 1..ParquetColumns : file.rows[r][c] # Null }

RowCap == IF dfull THEN Len(dfile.rows) ELSE Min(MAX_ROWS_DEFAULT, Len(dfile.rows))

ExaminedCells == { <<dexamined[k].row, dexamined[k].k>> : k \in DOMAIN dexamined }

SampledCells ==
    { <<r, c>> \in (1..Len(dfile.rows)) \X (1..3) :
        r <= RowCap /\ c \in StringCells(dfile, r) }

\* C12: a scan that neither failed nor stopped at an injection has examined
\* every string cell of the first 10 000 rows (of all rows with full_scan)
\* and no cell of a later row.
C12_FirstRowsExamined ==
    (dpc = "scanned" /\ dend \in { "exhausted", "limit" })
        => ExaminedCells = SampledCells

(***************************************************************************)
(* Document engine: claims                                                 *)
(***************************************************************************)
TextScanned == tpc = "scanned" /\ tfile.ext \in TEXT_EXTENSIONS /\ tfile.readable

\* the characters at places i..j of the file are next to each other in chunk c
HoldsWhole(c, i, j) ==
    \E s \in 1..Len(c) :
        /\ s + (j - i) <= Len(c)
        /\ \A m \in 0..(j - i) : c[s + m].at = i + m

\* C13: every character of the file is in some yielded chunk, and every
\* occurrence of a substring no longer than the overlap lies whole in some
\* yielded chunk, also across the boundary of two reads.
C13_OverlapKeepsShortSubstrings ==
    TextScanned =>
        \A i \in 1..Len(tfile.content), j \in 1..Len(tfile.content) :
            (i <= j /\ j - i + 1 <= OVERLAP_SIZE) =>
                \E k \in DOMAIN tchunks : HoldsWhole(tchunks[k], i, j)

\* a substring of the full overlap length that starts in the first read and
\* ends in the second, and is whole in no chunk but the second
C13_Witness ==
    /\ TextScanned
    /\ Len(tfile.content) > CHUNK_SIZE + 1
    /\ Len(tchunks) >= 2
    /\ HoldsWhole(tchunks[2], CHUNK_SIZE, CHUNK_SIZE + OVERLAP_SIZE - 1)
    /\ ~HoldsWhole(tchunks[1], CHUNK_SIZE, CHUNK_SIZE + OVERLAP_SIZE - 1)

DocScanned == tpc = "scanned" /\ tfile.readable

HasInjection(k) == is_match(Chars(tchunks[k]), injections)
HasPii(k) == PIIScanner_scan(Chars(tchunks[k])) # <<>>
Hit(k) == HasInjection(k) \/ HasPii(k)

IsHighThreat(t) == Len(t) >= 1 /\ t[1] = "HIGH"

\* C20: the chunks are processed in order; at the first chunk that matches an
\* injection pattern the result is exactly one HIGH threat and no later chunk
\* is read; a chunk goes to the PII matcher only when it matched no injection
\* pattern, and at the first chunk with a PII hit the result is that finding
\* and no later chunk is read.
C20_FailFastInOrder ==
    DocScanned =>
        /\ \A k \in 1..Len(tfed) : tfed[k] <= tread /\ ~HasInjection(tfed[k])
        /\ \A k \in 1..Len(tfed) : \A j \in 1..(k - 1) : tfed[j] < tfed[k]
        /\ \A k \in 1..tread : (~HasInjection(k)) => \E j \in DOMAIN tfed : tfed[j] = k
        /\ \A k \in 1..(tread - 1) : ~Hit(k)
        /\ tread <= Len(tchunks)
        /\ (tread < Len(tchunks) => Hit(tread))
        /\ (tread >= 1 /\ HasInjection(tread)) =>
               (Len(tthreats) = 1 /\ IsHighThreat(tthreats[1]))
        /\ (tread >= 1 /\ ~HasInjection(tread) /\ HasPii(tread)) =>
               tthreats = PIIScanner_scan(Chars(tchunks[tread]))
        /\ (tread >= 1 /\ ~Hit(tread)) => tthreats = <<>>

\* the scan went past a clean first chunk and stopped at a later one that
\* matches two injection patterns and holds PII, with chunks left unread
C20_Witness ==
    /\ DocScanned
    /\ tread >= 2
    /\ tread < Len(tchunks)
    /\ is_match(Chars(tchunks[tread]), <<injections[1]>>)
    /\ is_match(Chars(tchunks[tread]), <<injections[2]>>)
    /\ HasPii(tread)
    /\ Len(tthreats) = 1

(***************************************************************************)
(* Hash cache: claim                                                       *)
(***************************************************************************)
\* the last set for path p was made while the file had the size and mtime it
\* has now
SetStillCurrent(p) ==
    /\ clastset[p] # NoRow
    /\ clastset[p].size = cfiles[p].size
    /\ clastset[p].mtime_ns = cfiles[p].mtime_ns

\* C14: a get returns a digest only if the most recent set for the path
\* stored it while the file had exactly its current size and mtime; in that
\* case it returns the stored digest, and after a change of size or mtime it
\* returns none.
C14_NoFalseHit ==
    cpc = "got" =>
        /\ SetStillCurrent(cgot.path) => cgot.digest = clastset[cgot.path].digest
        /\ ~SetStillCurrent(cgot.path) => cgot.digest = "none"

\* a miss on a file that was set and then modified
C14_Witness ==
    /\ cpc = "got"
    /\ clastset[cgot.path] # NoRow
    /\ ~SetStillCurrent(cgot.path)
    /\ cgot.digest = "none"

(***************************************************************************)
(* Dependency engine: claim                                                *)
(***************************************************************************)
Min3(x, y, z) == Min(x, Min(y, z))

\* the Levenshtein distance, by its recurrence
RECURSIVE Levenshtein(_, _)
Levenshtein(a, b) ==
    IF a = <<>> THEN Len(b)
    ELSE IF b = <<>> THEN Len(a)
    ELSE Min3(Levenshtein(Tail(a), b) + 1,
              Levenshtein(a, Tail(b)) + 1,
              Levenshtein(Tail(a), Tail(b)) + (IF Head(a) = Head(b) THEN 0 ELSE 1))

\* C15: _is_typo(a, b) is true iff a and b are distinct and their Levenshtein
\* distance is at most 1, and _is_typo(a, b) = _is_typo(b, a).
C15_TypoIffOneEdit ==
    ypc = "checked" =>
        /\ yresult[1] <=> (yname # ypopular /\ Levenshtein(yname, ypopular) <= 1)
        /\ yresult[1] = yresult[2]

\* an insertion in the middle of the name is found
C15_Witness ==
    /\ ypc = "checked"
    /\ Len(yname) = Len(ypopular) + 1
    /\ Len(ypopular) >= 2
    /\ yname[1] = ypopular[1]
    /\ yname[Len(yname)] = ypopular[Len(ypopular)]
    /\ yname[2] # ypopular[2]
    /\ yresult = <<TRUE, TRUE>>

(***************************************************************************)
(* Configuration loader: claims                                            *)
(***************************************************************************)
\* the environment's value for a key: AEGIS_HF_TOKEN before HF_TOKEN
EnvFor(env, key) ==
    CASE key = "hf_token" ->
            IF env["AEGIS_HF_TOKEN"] # Unset THEN EnvValue("AEGIS_HF_TOKEN")
            ELSE IF env["HF_TOKEN"] # Unset THEN EnvValue("HF_TOKEN") ELSE Unset
      [] key = "private_key_path" ->
            IF env["AEGIS_PRIVATE_KEY_PATH"] # Unset
            THEN EnvValue("AEGIS_PRIVATE_KEY_PATH") ELSE Unset
      [] key = "fail_on_severity" ->
            IF env["AEGIS_FAIL_ON"] # Unset THEN EnvValue("AEGIS_FAIL_ON") ELSE Unset

FileProvides(file, key) == file.state = "ok" /\ key \in file.keys

\* environment > file > defaults
Resolved(key, env, provided) ==
    IF EnvFor(env, key) # Unset THEN EnvFor(env, key)
    ELSE IF provided THEN FileValue(key)
    ELSE DefaultValue(key)

\* C16: each of hf_token, private_key_path and fail_on_severity is loaded as
\* the environment variable's value when it is set, else the config file's
\* value when the file provides one, else the default; AEGIS_HF_TOKEN wins
\* over HF_TOKEN.
C16_EnvFileDefaults ==
    linstance # NoInstance =>
        \A key \in ConfigKeys :
            linstance.values[key] =
                Resolved(key, lbuilt.env, FileProvides(lbuilt.file, key))

\* C16 (amended): the same, where the file's value counts only when the
\* loader read the file, that is when PyYAML could be imported.
C16_EnvFileDefaultsWhenFileIsRead ==
    linstance # NoInstance =>
        \A key \in ConfigKeys :
            linstance.values[key] =
                Resolved(key, lbuilt.env, lbuilt.yaml /\ FileProvides(lbuilt.file, key))

\* all three levels at once: both token variables set, the key path from the
\* file, the severity from the defaults
C16_Witness ==
    /\ linstance # NoInstance
    /\ lbuilt.yaml
    /\ lbuilt.env["AEGIS_HF_TOKEN"] # Unset
    /\ lbuilt.env["HF_TOKEN"] # Unset
    /\ lbuilt.env["AEGIS_PRIVATE_KEY_PATH"] = Unset
    /\ lbuilt.env["AEGIS_FAIL_ON"] = Unset
    /\ lbuilt.file = [state |-> "ok", keys |-> { "hf_token", "private_key_path" }]
    /\ linstance.values["hf_token"] = "hf_aegis_env"
    /\ linstance.values["private_key_path"] = "/file/cosign.key"
    /\ linstance.values["fail_on_severity"] = "CRITICAL"

\* C18: a config file that exists but fails to parse at startup is fatal:
\* the load ends in an error, no configuration is built and no scan runs
\* with a record built from defaults.
C18_ParseFailureIsFatal ==
    (lpc \in { "loaded", "reloaded" } /\ lbuilt # NoInstance /\ lbuilt.yaml
        /\ lbuilt.file.state = "unparsable")
        => (linstance = NoInstance /\ lscan = NoInstance)

(***************************************************************************)
(* Engines and their internal failures: claim                              *)
(***************************************************************************)
FailureReported(ts) ==
    \E k \in DOMAIN ts : Len(ts[k]) >= 1 /\ ts[k][1] \in { "WARNING", "CRITICAL" }

\* the Keras file was handled and its configuration could not be read or
\* parsed
KerasUnreadable ==
    \/ kformat = "zip" /\ kfile.zmember = "badjson"
    \/ kformat = "hdf5" /\ kfile.h5py /\ kfile.hattr \in { "unreadable", "badjson" }

KerasFailureReported ==
    (kpc = "scanned" /\ KerasUnreadable) => FailureReported(kthreats)

NotebookFailureReported ==
    (npc \in { "scanned", "rescanned" } /\ nb.kind = "badjson")
        => FailureReported(nthreats)

DocumentFailureReported ==
    (tpc = "scanned" /\ ~tfile.readable
        /\ (tfile.ext \in TEXT_EXTENSIONS \/ (tfile.ext \in DOC_EXTS /\ tfile.available)))
        => FailureReported(tthreats)

DatasetFailureReported ==
    (dpc = "scanned" /\ ~dfile.readable /\ dfile.ext \in { ".csv", ".jsonl", ".parquet" })
        => FailureReported(dthreats)

\* C17: no engine raises to the pipeline and no internal failure is silent:
\* for an input the Keras, notebook, document or dataset engine cannot read
\* or parse, the returned list holds a WARNING or CRITICAL threat.
C17_FailuresAreNeverSilent ==
    /\ KerasFailureReported
    /\ NotebookFailureReported
    /\ DocumentFailureReported
    /\ DatasetFailureReported

(***************************************************************************)
(* Dataset engine: fail-fast on injections, collection of the others       *)
(***************************************************************************)
\* the text of an examined value, read back from the file
ValueAt(file, e) ==
    IF file.ext = ".jsonl"
    THEN _extract_strings_from_json(file.rows[e.row])[e.k]
    ELSE file.rows[e.row][e.k]

ExaminedText(j) == Take(ValueAt(dfile, dexamined[j]), MAX_VALUE_LEN)

\* the value is long enough to be matched at all
Matchable(j) == Len(ValueAt(dfile, dexamined[j])) >= MIN_VALUE_LEN

InjectionAt(j) ==
    /\ Matchable(j)
    /\ \E p \in DOMAIN injections : Contains(ExaminedText(j), injections[p])

IsMediumThreat(t) == Len(t) >= 1 /\ t[1] = "MEDIUM"

\* the pattern a threat message ends with
ThreatPattern(t) == t[Len(t) - 1]

RECURSIVE MediumPatterns(_, _)
MediumPatterns(ts, k) ==
    IF k > Len(ts) THEN <<>>
    ELSE (IF IsMediumThreat(ts[k]) THEN <<ThreatPattern(ts[k])>> ELSE <<>>)
         \o MediumPatterns(ts, k + 1)

\* the suspicious patterns that occur in the examined values that hold no
\* injection, value by value and pattern by pattern
RECURSIVE ExpectedMediumPatterns(_, _)
ExpectedMediumPatterns(j, p) ==
    IF j > Len(dexamined) THEN <<>>
    ELSE IF p > Len(dataset_suspicious) THEN ExpectedMediumPatterns(j + 1, 1)
    ELSE (IF Matchable(j) /\ ~InjectionAt(j)
             /\ Contains(ExaminedText(j), dataset_suspicious[p])
          THEN <<dataset_suspicious[p]>> ELSE <<>>)
         \o ExpectedMediumPatterns(j, p + 1)

HighThreatsAt == { k \in DOMAIN dthreats : IsHighThreat(dthreats[k]) }

\* C21: the result of a dataset scan holds at most one HIGH threat, as its
\* last element; the value with the injection is the last value examined;
\* every suspicious string in a value examined before it has its MEDIUM
\* threat in the result.
C21_HighStopsMediumContinues ==
    dpc = "scanned" =>
        /\ Cardinality(HighThreatsAt) <= 1
        /\ \A k \in HighThreatsAt : k = Len(dthreats)
        /\ \A j \in DOMAIN dexamined :
              InjectionAt(j) => (j = Len(dexamined) /\ HighThreatsAt # {})
        /\ HighThreatsAt # {} => (dexamined # <<>> /\ InjectionAt(Len(dexamined)))
        /\ MediumPatterns(dthreats, 1) = ExpectedMediumPatterns(1, 1)

\* a scan that kept two MEDIUM threats of one value and then stopped at an
\* injection although rows were left
C21_Witness ==
    /\ dpc = "scanned"
    /\ dend = "failfast"
    /\ Len(dthreats) >= 3
    /\ IsMediumThreat(dthreats[1])
    /\ IsMediumThreat(dthreats[2])
    /\ dexamined[Len(dexamined)].row < Len(dfile.rows)

(***************************************************************************)
(* Notebook engine: collection of all findings                             *)
(***************************************************************************)
\* the threats the body of the loop appends for each cell taken by itself,
\* in cell order
RECURSIVE OwnThreats(_, _)
OwnThreats(cells, k) ==
    IF k > Len(cells) THEN <<>>
    ELSE ScanCell(cells[k], k).threats \o OwnThreats(cells, k + 1)

IsFinding(t) == ~(Len(t) >= 2 /\ t[1] = "WARNING" /\ t[2] = ": Scan error: ")

\* C22: the findings returned for a notebook are the findings of its cells,
\* each cell taken by itself, in cell order, whatever the other cells hold.
C22_AllCellFindingsCollected ==
    NScanned => SelectSeq(nthreats, IsFinding) = OwnThreats(nb.cells, 1)

(***************************************************************************)
(* Keras engine: a Lambda finding is never lost                            *)
(***************************************************************************)
\* the configuration has a layer with class_name Lambda in config.layers
LambdaInLayers(cfg) ==
    /\ IsDict(cfg)
    /\ LET model_config == IF cfg.config = Absent THEN cfg ELSE cfg.config
       IN /\ IsDict(model_config)
          /\ IsList(model_config.layers)
          /\ \E k \in DOMAIN model_config.layers.items :
                /\ IsDict(model_config.layers.items[k])
                /\ model_config.layers.items[k].class_name = "Lambda"

HasCritical(ts) == \E k \in DOMAIN ts : ts[k][1] = "CRITICAL"

\* C23: a zip-packaged or HDF5 model whose config.layers holds a Lambda
\* layer gets at least one CRITICAL threat, whatever else the layers hold.
C23_LambdaNeverLost ==
    kpc = "scanned" =>
        /\ (kformat = "zip" /\ kfile.zmember = "ok" /\ LambdaInLayers(kfile.zconfig))
              => HasCritical(kthreats)
        /\ (kformat = "hdf5" /\ kfile.h5py /\ kfile.hattr = "ok"
              /\ LambdaInLayers(kfile.hconfig))
              => HasCritical(kthreats)

(***************************************************************************)
(* Document engine: an injection is reported                               *)
(***************************************************************************)
IsPromptInjectionThreat(t) ==
    Len(t) >= 2 /\ t[1] = "HIGH" /\ t[2] = ": Prompt Injection detected in "

\* C24: when some yielded chunk of a text document matches a prompt-injection
\* pattern, the result holds a HIGH prompt-injection threat, also when an
\* earlier chunk holds personal data.
C24_InjectionReportedDespitePii ==
    (TextScanned /\ \E k \in DOMAIN tchunks : HasInjection(k))
        => \E j \in DOMAIN tthreats : IsPromptInjectionThreat(tthreats[j])

(***************************************************************************)
(* Configuration loader: built once                                        *)
(***************************************************************************)
\* the record a first call of load() would build from what it finds now
FreshConfig == ConfigLoader_load(NoInstance, lfile, lyaml, lenv)

\* C25: once built, the configuration is the record built from what the
\* first call of load() found, at every later call, whatever became of the
\* environment and of the config file since; the scan command runs with
\* that record.
C25_BuiltOnceThenFixed ==
    linstance # NoInstance =>
        /\ lbuilt # NoInstance
        /\ linstance = ConfigLoader_load(NoInstance, lbuilt.file, lbuilt.yaml, lbuilt.env)
        /\ lscan # NoInstance => lscan = linstance

\* load() was called again after the environment and the file had changed,
\* and returned the first record although a fresh build would differ
C25_Witness ==
    /\ lpc = "reloaded"
    /\ linstance # NoInstance
    /\ lscan = linstance
    /\ lenv # lbuilt.env
    /\ lfile # lbuilt.file
    /\ linstance # FreshConfig

====
